---- MODULE Spec2Model ----
(***************************************************************************)
(* Model of the content-addressed collection layer of the local plan       *)
(* extractor: detect_file_suffix, create_endpoint_hardlink and             *)
(* download_document, as written in bin/find-local-plan.py and             *)
(* bin/download-documents.py; and of the page discovery methods of         *)
(* LocalPlanFinder in bin/find-local-plan.py: construct_likely_urls, the   *)
(* two-tier page fetch, extract_local_plan_links, extract_document_links   *)
(* and classify_document_type.                                             *)
(*                                                                         *)
(* In the collection layer and in construct_likely_urls                    *)
(* strings are modelled as sequences of tokens.  A token stands for a run  *)
(* of characters that the code never looks inside ("application/pdf",      *)
(* "https://", the four bytes "%PDF"); the separators the code splits on   *)
(* (";", "?", ".") and white space are tokens of their own, so split,      *)
(* strip, rsplit, lower and startswith are computed, not assumed.          *)
(***************************************************************************)
EXTENDS Integers, Sequences, FiniteSets, TLC

\* ------------------------------------------------------------------------
\* String helpers (Python str / bytes methods on token sequences)
\* ------------------------------------------------------------------------

SetMin(S) == CHOOSE x \in S : \A y \in S : x <= y

SetMax(S) == CHOOSE x \in S : \A y \in S : x >= y

\* s.split(sep)[0]: everything before the first occurrence of sep
SplitHead(s, sep) ==
    LET idx == {i \in 1..Len(s) : s[i] = sep}
    IN  IF idx = {} THEN s ELSE SubSeq(s, 1, SetMin(idx) - 1)

\* s.rsplit(sep, 1)[-1]: everything after the last occurrence of sep
RSplitLast(s, sep) ==
    LET idx == {i \in 1..Len(s) : s[i] = sep}
    IN  IF idx = {} THEN s ELSE SubSeq(s, SetMax(idx) + 1, Len(s))

\* s.strip(): leading and trailing white space removed
Strip(s) ==
    LET idx == {i \in 1..Len(s) : s[i] # " "}
    IN  IF idx = {} THEN << >> ELSE SubSeq(s, SetMin(idx), SetMax(idx))

\* str.lower() on one token; only the tokens with capitals change
LowerTok(t) ==
    CASE t = "PDF" -> "pdf"
      [] t = "Docx" -> "docx"
      [] t = "APPLICATION/PDF" -> "application/pdf"
      [] t = "Text/HTML" -> "text/html"
      [] t = "Example" -> "example"
      [] t = "Bassetlaw" -> "bassetlaw"
      [] t = "York" -> "york"
      [] t = "City" -> "city"
      [] t = "Borough" -> "borough"
      [] t = "District" -> "district"
      [] t = "Council" -> "council"
      [] OTHER -> t

Lower(s) == [i \in 1..Len(s) |-> LowerTok(s[i])]

\* sub in s, for a one-token needle
Contains(s, tok) == \E i \in 1..Len(s) : s[i] = tok

\* s.startswith(tok)
StartsWith(s, tok) == Len(s) > 0 /\ s[1] = tok

\* ------------------------------------------------------------------------
\* detect_file_suffix
\* ------------------------------------------------------------------------

\* content[:2000], counted in chunks of the modelled payload
SniffWindow == 2

\* the mime_to_ext dictionary
MimeKeys ==
    {"application/pdf",
     "application/vnd.openxmlformats-officedocument.wordprocessingml.document",
     "application/msword", "application/vnd.ms-excel",
     "application/vnd.openxmlformats-officedocument.spreadsheetml.sheet",
     "text/html", "text/plain", "application/zip", "image/jpeg", "image/png"}

mime_to_ext(m) ==
    CASE m = "application/pdf" -> "pdf"
      [] m = "application/vnd.openxmlformats-officedocument.wordprocessingml.document" -> "docx"
      [] m = "application/msword" -> "doc"
      [] m = "application/vnd.ms-excel" -> "xls"
      [] m = "application/vnd.openxmlformats-officedocument.spreadsheetml.sheet" -> "xlsx"
      [] m = "text/html" -> "html"
      [] m = "text/plain" -> "txt"
      [] m = "application/zip" -> "zip"
      [] m = "image/jpeg" -> "jpg"
      [] m = "image/png" -> "png"
      [] OTHER -> ""

\* mimetypes.guess_extension(mime_type).lstrip("."), "" standing for None.
\* The standard table is keyed by the lower-cased type; the entries listed
\* are the ones for the types the model's inputs can carry.
GuessExtension(mime) ==
    IF Len(mime) # 1 THEN ""
    ELSE LET m == LowerTok(mime[1])
         IN  CASE m \in MimeKeys -> mime_to_ext(m)
               [] m = "application/octet-stream" -> "bin"
               [] m = "application/json" -> "json"
               [] m = "image/gif" -> "gif"
               [] OTHER -> ""

\* step (a): the declared content-type
SuffixFromContentType(content_type) ==
    IF content_type = << >> THEN ""
    ELSE LET mime_type == Strip(SplitHead(content_type, ";"))
         IN  IF Len(mime_type) = 1 /\ mime_type[1] \in MimeKeys
             THEN mime_to_ext(mime_type[1])
             ELSE GuessExtension(mime_type)

\* step (b): magic bytes
SuffixFromMagic(content) ==
    IF content = << >> THEN ""
    ELSE LET head == SubSeq(content, 1, IF Len(content) < SniffWindow
                                        THEN Len(content) ELSE SniffWindow)
         IN  CASE StartsWith(content, "%PDF") -> "pdf"
               [] StartsWith(content, "PK0304") ->
                     IF Contains(head, "word/") THEN "docx"
                     ELSE IF Contains(head, "xl/") THEN "xlsx"
                     ELSE "zip"
               [] StartsWith(content, "D0CF11E0") -> "doc"
               [] StartsWith(content, "<!DOCTYPE") \/ StartsWith(content, "<html") -> "html"
               [] OTHER -> ""

UrlExtWhitelist ==
    {"pdf", "doc", "docx", "xls", "xlsx", "html", "txt", "zip", "jpg", "png"}

\* step (c): the extension of the URL
SuffixFromUrl(url) ==
    IF url = << >> THEN ""
    ELSE LET url_path == SplitHead(url, "?")
         IN  IF ~Contains(url_path, ".") THEN ""
             ELSE LET ext == Lower(RSplitLast(url_path, "."))
                  IN  IF Len(ext) = 1 /\ ext[1] \in UrlExtWhitelist
                      THEN ext[1] ELSE ""

\* variant: the URL extension is tried before the magic bytes
detect_file_suffix_UrlFirst(content, content_type, url) ==
    IF SuffixFromContentType(content_type) # "" THEN SuffixFromContentType(content_type)
    ELSE IF SuffixFromUrl(url) # "" THEN SuffixFromUrl(url)
    ELSE IF SuffixFromMagic(content) # "" THEN SuffixFromMagic(content)
    ELSE "bin"

\* variant: the magic bytes are tried before the declared content-type
detect_file_suffix_MagicFirst(content, content_type, url) ==
    IF SuffixFromMagic(content) # "" THEN SuffixFromMagic(content)
    ELSE IF SuffixFromContentType(content_type) # "" THEN SuffixFromContentType(content_type)
    ELSE IF SuffixFromUrl(url) # "" THEN SuffixFromUrl(url)
    ELSE "bin"

detect_file_suffix(content, content_type, url) ==
    IF SuffixFromContentType(content_type) # "" THEN SuffixFromContentType(content_type)
    ELSE IF SuffixFromMagic(content) # "" THEN SuffixFromMagic(content)
    ELSE IF SuffixFromUrl(url) # "" THEN SuffixFromUrl(url)
    ELSE "bin"

\* ------------------------------------------------------------------------
\* Hashes, the three directories of collection/, and the ledger record
\* ------------------------------------------------------------------------

\* hashlib.sha1(content).hexdigest(): a collision-free digest of the bytes
calculate_sha1(content) == <<"sha1", content>>

\* hashlib.sha256(text.encode("utf-8")).hexdigest()
calculate_sha256(text) == <<"sha256", text>>

\* the two scripts that define download_document; they share
\* collection/resource and collection/log and differ in the alias directory
\* and in the except clauses
Variants == {"find", "download"}

\* the alias directory of each script
AliasDirOf(variant) ==
    IF variant = "find" THEN "collection/document" ELSE "collection/endpoint"

\* URLs handed to download_document
UrlA == <<"https://", "a", "/", "plan", ".", "pdf">>

UrlB == <<"http://", "b", "/", "download", "?", "id">>

GoodUrls == {UrlA, UrlB}

BadUrls == {<< >>, <<"ftp://", "c", "/", "plan", ".", "pdf">>}

\* response bodies a server can send
PdfBody == <<"%PDF", "data">>

HtmlBody == <<"<html">>

Bodies == {PdfBody, HtmlBody}

\* Content-Type headers a server can send ("" when the header is missing)
ContentTypes == {<< >>, <<"text/html", ";", " ", "charset=utf-8">>}

\* status codes of urllib.error.HTTPError
HttpErrorCodes == {"404"}

Hashes == {calculate_sha1(b) : b \in Bodies}

Endpoints == {calculate_sha256(u) : u \in GoodUrls \cup BadUrls}

\* file names that can appear in collection/resource
ResourceNames == Hashes \cup Endpoints

\* every suffix detect_file_suffix can return
Suffixes == UrlExtWhitelist \cup {"bin", "json", "gif"}

AliasKeys == {AliasDirOf(v) : v \in Variants} \X Endpoints \X Suffixes

\* a file of collection/resource: absent, or present with its bytes
NoFile == [exists |-> FALSE, data |-> << >>]

File(data) == [exists |-> TRUE, data |-> data]

\* an alias path: absent, a hard link to the inode of resource/<hash>, or a
\* file with an inode of its own ("copy")
NoAlias == [kind |-> "none", hash |-> << >>, data |-> << >>]

HardLink(hash) == [kind |-> "link", hash |-> hash, data |-> << >>]

\* a ledger file collection/log/<endpoint>.json: absent, opened for writing
\* and not yet dumped, or holding a record
NoLog ==
    [state |-> "absent", resource |-> << >>, url |-> << >>, status |-> "",
     ctype |-> << >>, bytes |-> 0]

PartialLog == [NoLog EXCEPT !.state = "partial"]

\* the log_entry dictionary of a successful download
SuccessEntry(resource_hash, url, status, content_type, content_length) ==
    [state |-> "entry", resource |-> resource_hash, url |-> url,
     status |-> status, ctype |-> content_type, bytes |-> content_length]

\* the log_entry dictionary of a failed download
FailureEntry(url, status) ==
    [state |-> "entry", resource |-> << >>, url |-> url, status |-> status,
     ctype |-> << >>, bytes |-> 0]

\* ------------------------------------------------------------------------
\* State
\* ------------------------------------------------------------------------

\* number of faults (failing open/write/link, a killed process) the
\* environment injects
MaxFaults == 1

Procs == {1, 2}

VARIABLES
    resource,    \* collection/resource: [ResourceNames -> file]
    alias,       \* collection/document and collection/endpoint: [AliasKeys -> alias]
    log,         \* collection/log: [Endpoints -> ledger file]
    resWrites,   \* how often each resource file was opened for writing
    logWrites,   \* how often a record was dumped to each ledger file
    faults,      \* storage faults injected so far
    proc,        \* per process: position in download_document and its locals
    sfx,         \* one application of detect_file_suffix
    run          \* one run of a LocalPlanFinder method: its inputs, position and result

vars == <<resource, alias, log, resWrites, logWrites, faults, proc, sfx, run>>

shared == <<resource, alias, log, resWrites, logWrites, faults>>

BlankProc ==
    [pc |-> "idle", url |-> << >>, endpoint |-> << >>, variant |-> "find",
     phase |-> "none", content |-> << >>, status |-> "", ctype |-> << >>,
     rhash |-> << >>, exc |-> "", code |-> "", entry |-> NoLog,
     ret |-> "pending", net |-> 0,
     \* history: the ledger file and the alias directories when the call began,
     \* and how often the call has dumped a record so far
     hadEntry |-> NoLog, preAlias |-> [k \in AliasKeys |-> NoAlias],
     records |-> 0]

BlankSfx == [content |-> << >>, ctype |-> << >>, url |-> << >>, suffix |-> "", done |-> FALSE]

DownloadInit ==
    /\ resource = [h \in ResourceNames |-> NoFile]
    /\ alias = [k \in AliasKeys |-> NoAlias]
    /\ log = [e \in Endpoints |-> NoLog]
    /\ resWrites = [h \in ResourceNames |-> 0]
    /\ logWrites = [e \in Endpoints |-> 0]
    /\ faults = 0
    /\ proc = [p \in Procs |-> BlankProc]

\* no LocalPlanFinder method is running
BlankRun == [op |-> "none"]

Init == DownloadInit /\ sfx = BlankSfx /\ run = BlankRun

\* ------------------------------------------------------------------------
\* create_endpoint_hardlink, in two steps: unlink the old alias, link the new
\* ------------------------------------------------------------------------

\* hardlink_path: <alias directory>/<endpoint>.<suffix>
HardlinkPath(variant, endpoint, content, content_type, url) ==
    <<AliasDirOf(variant), endpoint, detect_file_suffix(content, content_type, url)>>

HardlinkPathOf(p) ==
    HardlinkPath(proc[p].variant, proc[p].endpoint, proc[p].content,
                 proc[p].ctype, proc[p].url)

\* where an exception raised at the current position goes: to the except
\* clauses when inside the try block, out of download_document otherwise
Raise(p, exc) ==
    IF proc[p].phase = "try"
    THEN [proc[p] EXCEPT !.pc = "except", !.exc = exc]
    ELSE [proc[p] EXCEPT !.pc = "done", !.exc = exc, !.ret = "raised"]

\* if hardlink_path.exists(): hardlink_path.unlink()
UnlinkAlias(p) ==
    /\ proc[p].pc = "unlink"
    /\ alias' = [alias EXCEPT ![HardlinkPathOf(p)] = NoAlias]
    /\ proc' = [proc EXCEPT ![p].pc = "link"]
    /\ UNCHANGED <<resource, log, resWrites, logWrites, faults, sfx, run>>

\* variant: the bytes are copied to the alias path instead of linked
LinkAliasCopy(p) ==
    /\ proc[p].pc = "link"
    /\ alias' = [alias EXCEPT ![HardlinkPathOf(p)] =
                    [kind |-> "copy", hash |-> << >>,
                     data |-> resource[proc[p].rhash].data]]
    /\ proc' = [proc EXCEPT ![p].pc = "done", ![p].ret = "entry"]
    /\ UNCHANGED <<resource, log, resWrites, logWrites, faults, sfx, run>>

\* os.link(resource_path, hardlink_path), then back in download_document:
\* return log_entry
LinkAlias(p) ==
    /\ proc[p].pc = "link"
    /\ IF alias[HardlinkPathOf(p)].kind # "none"
       THEN /\ proc' = [proc EXCEPT ![p] = Raise(p, "FileExistsError")]
            /\ UNCHANGED alias
       ELSE IF ~resource[proc[p].rhash].exists
       THEN /\ proc' = [proc EXCEPT ![p] = Raise(p, "FileNotFoundError")]
            /\ UNCHANGED alias
       ELSE /\ alias' = [alias EXCEPT ![HardlinkPathOf(p)] = HardLink(proc[p].rhash)]
            /\ proc' = [proc EXCEPT ![p].pc = "done", ![p].ret = "entry"]
    /\ UNCHANGED <<resource, log, resWrites, logWrites, faults, sfx, run>>

\* os.link fails with an OSError of the environment (EMLINK, EXDEV, ENOSPC)
LinkAliasFault(p) ==
    /\ proc[p].pc = "link"
    /\ faults < MaxFaults
    /\ faults' = faults + 1
    /\ proc' = [proc EXCEPT ![p] = Raise(p, "OSError")]
    /\ UNCHANGED <<resource, alias, log, resWrites, logWrites, sfx, run>>

\* ------------------------------------------------------------------------
\* download_document
\* ------------------------------------------------------------------------

\* variant: only the empty URL is skipped
IsRejectedEmptyOnly(url) == url = << >>

\* the two guards at the top: empty URL, URL without http:// or https://
IsRejected(url) ==
    \/ url = << >>
    \/ ~StartsWith(url, "http://") /\ ~StartsWith(url, "https://")

\* a caller invokes download_document(url, endpoint) of one of the scripts
Call(p, url, endpoint, variant) ==
    /\ proc[p].pc = "idle"
    /\ proc' = [proc EXCEPT ![p] =
                  IF IsRejected(url)
                  THEN [BlankProc EXCEPT !.pc = "done", !.url = url,
                                         !.endpoint = endpoint,
                                         !.variant = variant, !.ret = "none",
                                         !.preAlias = alias]
                  ELSE [BlankProc EXCEPT !.pc = "lookup", !.url = url,
                                         !.endpoint = endpoint,
                                         !.variant = variant,
                                         !.hadEntry = log[endpoint],
                                         !.preAlias = alias]]
    /\ UNCHANGED <<shared, sfx, run>>

\* variant: the ledger is not consulted, every call fetches
LookupIgnoresLedger(p) ==
    /\ proc[p].pc = "lookup"
    /\ proc' = [proc EXCEPT ![p].pc = "fetch", ![p].phase = "try"]
    /\ UNCHANGED <<shared, sfx, run>>

\* variant: a record without a resource counts as "not downloaded yet"
LookupRetriesFailure(p) ==
    /\ proc[p].pc = "lookup"
    /\ LET log_entry == log[proc[p].endpoint]
       IN  proc' = [proc EXCEPT ![p] =
              IF log_entry.state # "entry" \/ log_entry.resource = << >>
              THEN [@ EXCEPT !.pc = "fetch", !.phase = "try"]
              ELSE [@ EXCEPT !.pc = "unlink", !.phase = "cached",
                             !.entry = log_entry,
                             !.rhash = log_entry.resource,
                             !.content = resource[log_entry.resource].data,
                             !.ctype = log_entry.ctype]]
    /\ UNCHANGED <<shared, sfx, run>>

\* variant: an existing record is returned as it is, no alias is created
LookupNoRelink(p) ==
    /\ proc[p].pc = "lookup"
    /\ LET log_entry == log[proc[p].endpoint]
       IN  proc' = [proc EXCEPT ![p] =
              IF log_entry.state = "absent"
              THEN [@ EXCEPT !.pc = "fetch", !.phase = "try"]
              ELSE [@ EXCEPT !.pc = "done", !.phase = "cached",
                             !.entry = log_entry, !.ret = "entry"]]
    /\ UNCHANGED <<shared, sfx, run>>

\* if log_path.exists(): json.load, and the hard link is created again when
\* the record names a resource file that exists
Lookup(p) ==
    /\ proc[p].pc = "lookup"
    /\ LET e == proc[p].endpoint
           log_entry == log[e]
       IN  proc' = [proc EXCEPT ![p] =
              IF log_entry.state = "absent"
              THEN [@ EXCEPT !.pc = "fetch", !.phase = "try"]
              ELSE IF log_entry.state = "partial"
              THEN [@ EXCEPT !.pc = "done", !.phase = "cached",
                             !.exc = "JSONDecodeError", !.ret = "raised"]
              ELSE IF log_entry.resource # << >> /\ resource[log_entry.resource].exists
              THEN [@ EXCEPT !.pc = "unlink", !.phase = "cached",
                             !.entry = log_entry,
                             !.rhash = log_entry.resource,
                             !.content = resource[log_entry.resource].data,
                             !.ctype = log_entry.ctype]
              ELSE [@ EXCEPT !.pc = "done", !.phase = "cached",
                             !.entry = log_entry, !.ret = "entry"]]
    /\ UNCHANGED <<shared, sfx, run>>

\* variant: the resource file is named by the endpoint, not by the content
FetchOkByUrl(p, body, content_type) ==
    /\ proc[p].pc = "fetch"
    /\ proc' = [proc EXCEPT ![p].pc = "wopen", ![p].net = @ + 1,
                            ![p].content = body, ![p].status = "200",
                            ![p].ctype = content_type,
                            ![p].rhash = proc[p].endpoint]
    /\ UNCHANGED <<shared, sfx, run>>

\* urllib.request.urlopen(req, timeout=60) answers with a body
FetchOk(p, body, content_type) ==
    /\ proc[p].pc = "fetch"
    /\ proc' = [proc EXCEPT ![p].pc = "wopen", ![p].net = @ + 1,
                            ![p].content = body, ![p].status = "200",
                            ![p].ctype = content_type,
                            ![p].rhash = calculate_sha1(body)]
    /\ UNCHANGED <<shared, sfx, run>>

\* urlopen raises urllib.error.HTTPError (4xx/5xx)
FetchHttpError(p, code) ==
    /\ proc[p].pc = "fetch"
    /\ proc' = [proc EXCEPT ![p].pc = "except", ![p].net = @ + 1,
                            ![p].exc = "HTTPError", ![p].code = code]
    /\ UNCHANGED <<shared, sfx, run>>

\* urlopen raises URLError / timeout (DNS, connect, timeout)
FetchTransportError(p) ==
    /\ proc[p].pc = "fetch"
    /\ proc' = [proc EXCEPT ![p].pc = "except", ![p].net = @ + 1,
                            ![p].exc = "URLError"]
    /\ UNCHANGED <<shared, sfx, run>>

\* open(resource_path, "wb"): creates the file or truncates the existing one
OpenResource(p) ==
    /\ proc[p].pc = "wopen"
    /\ resource' = [resource EXCEPT ![proc[p].rhash] = File(<< >>)]
    /\ resWrites' = [resWrites EXCEPT ![proc[p].rhash] = @ + 1]
    /\ proc' = [proc EXCEPT ![p].pc = "wwrite"]
    /\ UNCHANGED <<alias, log, logWrites, faults, sfx, run>>

\* open(resource_path, "wb") fails: nothing is created
OpenResourceFault(p) ==
    /\ proc[p].pc = "wopen"
    /\ faults < MaxFaults
    /\ faults' = faults + 1
    /\ proc' = [proc EXCEPT ![p] = Raise(p, "OSError")]
    /\ UNCHANGED <<resource, alias, log, resWrites, logWrites, sfx, run>>

\* f.write(content), then the log_entry dictionary is built
WriteResource(p) ==
    /\ proc[p].pc = "wwrite"
    /\ resource' = [resource EXCEPT ![proc[p].rhash] = File(proc[p].content)]
    /\ proc' = [proc EXCEPT ![p].pc = "logopen",
                  ![p].entry = SuccessEntry(proc[p].rhash, proc[p].url,
                                            proc[p].status, proc[p].ctype,
                                            Len(proc[p].content))]
    /\ UNCHANGED <<alias, log, resWrites, logWrites, faults, sfx, run>>

\* f.write(content) fails part-way: a proper prefix of the bytes is on disk
WriteResourceFault(p) ==
    /\ proc[p].pc = "wwrite"
    /\ faults < MaxFaults
    /\ faults' = faults + 1
    /\ \E n \in 0..(Len(proc[p].content) - 1) :
          resource' = [resource EXCEPT ![proc[p].rhash] =
                          File(SubSeq(proc[p].content, 1, n))]
    /\ proc' = [proc EXCEPT ![p] = Raise(p, "OSError")]
    /\ UNCHANGED <<alias, log, resWrites, logWrites, sfx, run>>

\* the status field of the record an except clause builds:
\* bin/download-documents.py has "except urllib.error.HTTPError" before
\* "except Exception", bin/find-local-plan.py has "except Exception" only
FailureStatus(variant, exc, code) ==
    IF variant = "download" /\ exc = "HTTPError" THEN code ELSE "error"

\* variant: the except clause returns None without a record
ExceptNoRecord(p) ==
    /\ proc[p].pc = "except"
    /\ proc' = [proc EXCEPT ![p].pc = "done", ![p].phase = "except",
                            ![p].ret = "none"]
    /\ UNCHANGED <<shared, sfx, run>>

\* an except clause of download_document builds the failure record
Except(p) ==
    /\ proc[p].pc = "except"
    /\ proc' = [proc EXCEPT ![p].pc = "logopen", ![p].phase = "except",
                  ![p].entry = FailureEntry(proc[p].url,
                                 FailureStatus(proc[p].variant, proc[p].exc,
                                               proc[p].code))]
    /\ UNCHANGED <<shared, sfx, run>>

\* open(log_path, "w"): creates the ledger file or truncates it
OpenLog(p) ==
    /\ proc[p].pc = "logopen"
    /\ log' = [log EXCEPT ![proc[p].endpoint] = PartialLog]
    /\ proc' = [proc EXCEPT ![p].pc = "logdump"]
    /\ UNCHANGED <<resource, alias, resWrites, logWrites, faults, sfx, run>>

\* json.dump(log_entry, f, indent=2); in the try block the alias follows,
\* in an except clause the record is returned
DumpLog(p) ==
    /\ proc[p].pc = "logdump"
    /\ log' = [log EXCEPT ![proc[p].endpoint] = proc[p].entry]
    /\ logWrites' = [logWrites EXCEPT ![proc[p].endpoint] = @ + 1]
    /\ proc' = [proc EXCEPT ![p] =
                  IF proc[p].phase = "try"
                  THEN [@ EXCEPT !.pc = "unlink", !.records = @ + 1]
                  ELSE [@ EXCEPT !.pc = "done", !.ret = "entry",
                                 !.records = @ + 1]]
    /\ UNCHANGED <<resource, alias, resWrites, faults, sfx, run>>

\* download_document has returned or raised; the caller goes on
Return(p) ==
    /\ proc[p].pc = "done"
    /\ proc' = [proc EXCEPT ![p] = BlankProc]
    /\ UNCHANGED <<shared, sfx, run>>

\* one step of process p; callers pass endpoint = SHA256(url)
Step(p) ==
    \/ \E url \in GoodUrls \cup BadUrls, variant \in Variants :
          Call(p, url, calculate_sha256(url), variant)
    \/ Lookup(p)
    \/ \E body \in Bodies, content_type \in ContentTypes :
          FetchOk(p, body, content_type)
    \/ \E code \in HttpErrorCodes : FetchHttpError(p, code)
    \/ FetchTransportError(p)
    \/ OpenResource(p)
    \/ OpenResourceFault(p)
    \/ WriteResource(p)
    \/ WriteResourceFault(p)
    \/ OpenLog(p)
    \/ DumpLog(p)
    \/ UnlinkAlias(p)
    \/ LinkAlias(p)
    \/ LinkAliasFault(p)
    \/ Except(p)
    \/ Return(p)

\* the scripts as they are run: one process, one download at a time
Next == Step(1)

Spec == Init /\ [][Next]_vars

\* ------------------------------------------------------------------------
\* detect_file_suffix applied to bounded inputs
\* ------------------------------------------------------------------------

\* longest payload, in chunks
MaxContentLen == 3

ContentChunks ==
    {"%PDF", "PK0304", "D0CF11E0", "<!DOCTYPE", "<html", "word/", "xl/", "data"}

\* chunks that follow the first one: the ZIP member names the code looks
\* for, plain data, and a signature that is not at the start
TailChunks == {"word/", "xl/", "data", "%PDF"}

\* payloads: empty, or any first chunk followed by up to MaxContentLen - 1
\* tail chunks
SfxContents ==
    {<< >>} \cup
    {<<first>> \o tail :
        first \in ContentChunks,
        tail \in UNION {[1..n -> TailChunks] : n \in 0..(MaxContentLen - 1)}}

SfxContentTypes ==
    {<< >>,
     <<"application/pdf">>,
     <<"text/html", ";", " ", "charset=utf-8">>,
     <<" ", "application/msword", " ">>,
     <<"application/octet-stream">>,
     <<"application/x-unknown">>,
     <<"APPLICATION/PDF">>,
     <<"image/gif">>,
     <<";", "charset=utf-8">>,
     <<"text/plain", " ", "charset=utf-8">>}

SfxUrls ==
    {<< >>,
     <<"https://", "a", "/", "plan", ".", "pdf">>,
     <<"https://", "a", "/", "plan", ".", "PDF">>,
     <<"https://", "a", ".", "uk", "/", "plan">>,
     <<"https://", "a", "/", "dl", "?", "f", ".", "pdf">>,
     <<"https://", "a", "/", "plan", ".", "Docx", "?", "v", ".", "exe">>,
     <<"https://", "a", "/", "plan", ".", "exe">>,
     <<"https://", "a", "/", "plan", ".", "pdf", "#", "p2">>}

SuffixInit ==
    /\ DownloadInit
    /\ sfx \in {[content |-> c, ctype |-> t, url |-> u, suffix |-> "", done |-> FALSE] :
                   c \in SfxContents, t \in SfxContentTypes, u \in SfxUrls}
    /\ run = BlankRun

\* suffix = detect_file_suffix(content, content_type, url)
DetectSuffix ==
    /\ ~sfx.done
    /\ sfx' = [sfx EXCEPT !.suffix = detect_file_suffix(sfx.content, sfx.ctype, sfx.url),
                          !.done = TRUE]
    /\ UNCHANGED <<shared, proc, run>>

SuffixNext == DetectSuffix

SuffixSpec == SuffixInit /\ [][SuffixNext]_vars

\* ------------------------------------------------------------------------
\* Properties of download_document (specification Spec)
\* ------------------------------------------------------------------------

\* a call of download_document is in progress or has just ended
InCall(p) == proc[p].pc # "idle"

\* the call has returned a ledger record
Returned(p) == proc[p].pc = "done" /\ proc[p].ret = "entry"

\* ledger files that hold a record for url
RecordsFor(ledger, url) ==
    {e \in Endpoints : ledger[e].state = "entry" /\ ledger[e].url = url}

\* C1: a call download_document(u, SHA256(u)) that begins when the ledger
\* already holds a record for u makes no network request, leaves the ledger
\* and the Resource Store as they are (one record for u, no new resource
\* file, no resource write) and, when it returns, returns that record.
C1_SecondCallIsIdempotent ==
    [][\A p \in Procs :
          (InCall(p) /\ proc[p].hadEntry.state = "entry") =>
             /\ proc'[p].net = 0
             /\ log' = log
             /\ resource' = resource
             /\ resWrites' = resWrites
             /\ Cardinality(RecordsFor(log', proc[p].url)) = 1
             /\ (Returned(p)' => proc'[p].entry = proc[p].hadEntry)]_vars

\* a second call for a successfully downloaded URL has returned
C1_Witness ==
    \E p \in Procs :
       /\ Returned(p)
       /\ proc[p].hadEntry.state = "entry"
       /\ proc[p].hadEntry.resource # << >>
       /\ proc[p].entry = proc[p].hadEntry
       /\ proc[p].net = 0

\* C2: when a download of URL B with body b has succeeded and the ledger
\* record of another URL A names a resource file holding the same bytes,
\* both records name the same hash SHA1(b), they are two distinct records,
\* and exactly one file of collection/resource holds b, named SHA1(b).
C2_ContentDedup ==
    \A p \in Procs :
       (Returned(p) /\ proc[p].phase = "try") =>
          LET b == proc[p].content
              h == calculate_sha1(b)
              eB == proc[p].endpoint
          IN  /\ log[eB].state = "entry"
              /\ log[eB].resource = h
              /\ resource[h] = File(b)
              /\ {n \in ResourceNames : resource[n].exists /\ resource[n].data = b} = {h}
              /\ \A eA \in Endpoints \ {eB} :
                    (/\ log[eA].state = "entry"
                     /\ log[eA].resource # << >>
                     /\ resource[log[eA].resource].data = b)
                    => /\ log[eA].resource = h
                       /\ log[eA] # log[eB]
                       /\ log[eA].url # log[eB].url

\* two URLs have been downloaded with the same body
C2_Witness ==
    \E p \in Procs :
       /\ Returned(p) /\ proc[p].phase = "try"
       /\ \E eA \in Endpoints \ {proc[p].endpoint} :
             /\ log[eA].state = "entry"
             /\ log[eA].resource = calculate_sha1(proc[p].content)
             /\ log[proc[p].endpoint].resource = log[eA].resource

\* a ledger file holding the record of a failure
IsFailure(entry) == entry.state = "entry" /\ entry.resource = << >>

\* C3: a recorded failure is never retried: a ledger record with an empty
\* resource is never changed by any step, and a call that begins when such
\* a record exists makes no network request, goes straight to its return
\* and returns that record.
C3_FailureNotRetried ==
    [][/\ \A e \in Endpoints : IsFailure(log[e]) => log'[e] = log[e]
       /\ \A p \in Procs :
             (InCall(p) /\ IsFailure(proc[p].hadEntry)) =>
                /\ proc'[p].net = 0
                /\ log' = log
                /\ proc'[p].pc \in {"done", "idle"}
                /\ (proc'[p].pc = "done" =>
                       /\ proc'[p].ret = "entry"
                       /\ proc'[p].entry = proc[p].hadEntry)]_vars

\* a call for a URL with a recorded failure has returned
C3_Witness ==
    \E p \in Procs :
       /\ Returned(p)
       /\ IsFailure(proc[p].hadEntry)
       /\ proc[p].entry = proc[p].hadEntry
       /\ proc[p].net = 0

\* C4: when a call that made a network request ends, the ledger holds a
\* record for its URL, and the call returns that record, whether the fetch
\* succeeded, failed with an HTTP status or failed in transport.
C4_AttemptIsRecorded ==
    \A p \in Procs :
       (proc[p].pc = "done" /\ proc[p].net > 0) =>
          /\ log[proc[p].endpoint].state = "entry"
          /\ log[proc[p].endpoint].url = proc[p].url
          /\ proc[p].ret = "entry"
          /\ proc[p].entry = log[proc[p].endpoint]

\* a call whose fetch failed in transport has ended
C4_Witness ==
    \E p \in Procs :
       /\ proc[p].pc = "done" /\ proc[p].net > 0
       /\ proc[p].exc = "URLError"
       /\ IsFailure(log[proc[p].endpoint])

\* C5: a ledger record, once written, is never overwritten or changed, by
\* the call that wrote it or by a later call.
C5_LedgerRecordIsFinal ==
    [][\A e \in Endpoints : log[e].state = "entry" => log'[e] = log[e]]_vars

\* the alias path of a call that found a record naming a resource
CachedAliasPath(p) ==
    <<AliasDirOf(proc[p].variant), proc[p].endpoint,
      detect_file_suffix(resource[proc[p].hadEntry.resource].data,
                         proc[p].hadEntry.ctype, proc[p].url)>>

\* C8: when a call that began with a ledger record naming a resource
\* returns, the alias <endpoint>.<suffix> exists in the alias directory of
\* the script and is a hard link to the resource file the record names, and
\* no network request was made; in particular when the alias was missing.
C8_AliasRecreated ==
    \A p \in Procs :
       (/\ Returned(p)
        /\ proc[p].hadEntry.state = "entry"
        /\ proc[p].hadEntry.resource # << >>)
       => /\ proc[p].net = 0
          /\ resource[proc[p].hadEntry.resource].exists
          /\ alias[CachedAliasPath(p)] = HardLink(proc[p].hadEntry.resource)

\* the alias was missing when the call began and is there when it returns
C8_Witness ==
    \E p \in Procs :
       /\ Returned(p)
       /\ proc[p].hadEntry.state = "entry"
       /\ proc[p].hadEntry.resource # << >>
       /\ proc[p].preAlias[CachedAliasPath(p)] = NoAlias
       /\ alias[CachedAliasPath(p)] = HardLink(proc[p].hadEntry.resource)

\* create_endpoint_hardlink has completed inside the call of p
Linked(p) ==
    /\ Returned(p)
    /\ proc[p].phase \in {"try", "cached"}
    /\ proc[p].rhash # << >>

\* C9: after create_endpoint_hardlink the alias path is a hard link to the
\* resource file (never a copy of its bytes), no other alias path has
\* changed, and when the path already was that hard link the alias
\* directories are exactly as they were before the call.
C9_HardlinkIdempotent ==
    \A p \in Procs :
       Linked(p) =>
          /\ alias[HardlinkPathOf(p)] = HardLink(proc[p].rhash)
          /\ \A k \in AliasKeys \ {HardlinkPathOf(p)} :
                alias[k] = proc[p].preAlias[k]
          /\ (proc[p].preAlias[HardlinkPathOf(p)] = HardLink(proc[p].rhash)
                 => alias = proc[p].preAlias)

\* create_endpoint_hardlink has run again with the same arguments
C9_Witness ==
    \E p \in Procs :
       /\ Linked(p)
       /\ proc[p].preAlias[HardlinkPathOf(p)] = HardLink(proc[p].rhash)
       /\ alias = proc[p].preAlias

\* a resource file that holds the bytes its name is the hash of
IsComplete(n) == resource[n].exists /\ calculate_sha1(resource[n].data) = n

\* C10: a resource file, once written, is never written again: no step
\* opens, truncates or rewrites a file of collection/resource that already
\* holds the bytes of its hash.
C10_ResourceWrittenOnce ==
    [][\A n \in ResourceNames :
          IsComplete(n) => /\ resource'[n] = resource[n]
                           /\ resWrites'[n] = resWrites[n]]_vars

\* ------------------------------------------------------------------------
\* Properties of detect_file_suffix (specification SuffixSpec)
\* ------------------------------------------------------------------------

\* what each declared content-type of SfxContentTypes stands for once its
\* parameters are stripped: the suffix of the MIME table (mime_to_ext, then
\* the mimetypes table), "" when the tables have no entry
DeclaredSuffix(content_type) ==
    CASE content_type = <<"application/pdf">> -> "pdf"
      [] content_type = <<"text/html", ";", " ", "charset=utf-8">> -> "html"
      [] content_type = <<" ", "application/msword", " ">> -> "doc"
      [] content_type = <<"application/octet-stream">> -> "bin"
      [] content_type = <<"APPLICATION/PDF">> -> "pdf"
      [] content_type = <<"image/gif">> -> "gif"
      [] OTHER -> ""

\* what the payload's leading bytes say: %PDF, ZIP refined by word/ or xl/
\* in the sniffed window, OLE, HTML doctype or tag
MagicSuffix(content) ==
    IF Len(content) = 0 THEN ""
    ELSE CASE content[1] = "%PDF" -> "pdf"
           [] content[1] = "PK0304" ->
                 IF \E i \in 2..Len(content) : i <= SniffWindow /\ content[i] = "word/"
                 THEN "docx"
                 ELSE IF \E i \in 2..Len(content) : i <= SniffWindow /\ content[i] = "xl/"
                 THEN "xlsx" ELSE "zip"
           [] content[1] = "D0CF11E0" -> "doc"
           [] content[1] \in {"<!DOCTYPE", "<html"} -> "html"
           [] OTHER -> ""

\* the whitelisted extension of each URL of SfxUrls: the lower-cased text
\* after the last dot of the URL without its query string
UrlSuffix(url) ==
    CASE url = <<"https://", "a", "/", "plan", ".", "pdf">> -> "pdf"
      [] url = <<"https://", "a", "/", "plan", ".", "PDF">> -> "pdf"
      [] url = <<"https://", "a", "/", "plan", ".", "Docx", "?", "v", ".", "exe">> -> "docx"
      [] OTHER -> ""

\* C6 as stated: content beginning with %PDF always gets the suffix pdf,
\* whatever the declared content-type and the URL.
C6_PdfWhateverContentType ==
    (sfx.done /\ StartsWith(sfx.content, "%PDF")) => sfx.suffix = "pdf"

\* C6: content beginning with %PDF gets the suffix pdf, whatever the URL,
\* when the declared content-type is empty or has no entry in the MIME
\* tables; a declared content-type that has an entry decides the suffix
\* instead.
C6_PdfUnlessTypeDeclared ==
    (sfx.done /\ StartsWith(sfx.content, "%PDF")) =>
       sfx.suffix = IF DeclaredSuffix(sfx.ctype) = "" THEN "pdf"
                    ELSE DeclaredSuffix(sfx.ctype)

\* a PDF payload with an unknown declared type and a misleading URL
C6_Witness ==
    /\ sfx.done
    /\ StartsWith(sfx.content, "%PDF")
    /\ sfx.ctype = <<"application/x-unknown">>
    /\ sfx.url = <<"https://", "a", "/", "plan", ".", "Docx", "?", "v", ".", "exe">>
    /\ sfx.suffix = "pdf"

\* C7: the suffix is the result of the first step that yields one, in the
\* order declared content-type, magic bytes, URL extension, "bin".
C7_SuffixStepOrder ==
    sfx.done =>
       sfx.suffix =
          IF DeclaredSuffix(sfx.ctype) # "" THEN DeclaredSuffix(sfx.ctype)
          ELSE IF MagicSuffix(sfx.content) # "" THEN MagicSuffix(sfx.content)
          ELSE IF UrlSuffix(sfx.url) # "" THEN UrlSuffix(sfx.url)
          ELSE "bin"

\* the first two steps yield nothing and the URL extension decides
C7_Witness ==
    /\ sfx.done
    /\ DeclaredSuffix(sfx.ctype) = ""
    /\ sfx.ctype # << >>
    /\ MagicSuffix(sfx.content) = ""
    /\ sfx.content # << >>
    /\ UrlSuffix(sfx.url) = "pdf"
    /\ sfx.suffix = "pdf"

\* ------------------------------------------------------------------------
\* Runs that are cut short
\* ------------------------------------------------------------------------

\* the process running download_document is killed (bin/run-all-authorities.py
\* runs bin/find-local-plan.py with timeout=300; KeyboardInterrupt is not an
\* Exception): the files stay as they are, the next call starts afresh.
\* A kill counts as one of the MaxFaults faults of the environment.
Abort(p) ==
    /\ proc[p].pc \notin {"idle", "done"}
    /\ faults < MaxFaults
    /\ faults' = faults + 1
    /\ proc' = [proc EXCEPT ![p] = BlankProc]
    /\ UNCHANGED <<resource, alias, log, resWrites, logWrites, sfx, run>>

AbortNext == Next \/ Abort(1)

AbortSpec == Init /\ [][AbortNext]_vars

\* C11: whenever no call of download_document is in progress (it returned,
\* raised or was aborted) every file of collection/resource holds the bytes
\* of its name's hash and no ledger file holds an incomplete record.
C11_NoHalfWrittenEntry ==
    (\A p \in Procs : proc[p].pc \in {"idle", "done"}) =>
       /\ \A n \in ResourceNames : resource[n].exists => IsComplete(n)
       /\ \A e \in Endpoints : log[e].state # "partial"

\* C12: a call in which a storage operation failed after the body was
\* fetched ends by raising to its caller, and the ledger holds no failure
\* record for its endpoint.
C12_StorageFailureSurfaced ==
    \A p \in Procs :
       (proc[p].pc = "done" /\ proc[p].exc = "OSError" /\ proc[p].net > 0) =>
          /\ proc[p].ret = "raised"
          /\ ~IsFailure(log[proc[p].endpoint])

\* C13: a call whose URL is empty or has no http:// or https:// prefix goes
\* straight to "return None": no network request, and the step that makes
\* the call leaves collection/resource, collection/log and the alias
\* directories as they are.
C13_BadUrlRejected ==
    [][\A p \in Procs :
          (InCall(p)' /\ proc'[p].url \in BadUrls) =>
             /\ proc'[p].pc = "done"
             /\ proc'[p].ret = "none"
             /\ proc'[p].net = 0
             /\ resource' = resource
             /\ log' = log
             /\ alias' = alias]_vars

\* an ftp:// URL was rejected while the store held a downloaded document
C13_Witness ==
    /\ proc[1].pc = "done"
    /\ proc[1].url = <<"ftp://", "c", "/", "plan", ".", "pdf">>
    /\ proc[1].ret = "none"
    /\ \E n \in ResourceNames : resource[n].exists
    /\ \E e \in Endpoints : log[e].state = "entry"

\* C15: a call that ended after urlopen raised HTTPError left a ledger
\* record whose status is the response's code and whose resource is empty;
\* a call that ended after a transport error left a record with status
\* "error" and an empty resource.
C15_HttpFailureHasCode ==
    \A p \in Procs :
       /\ (proc[p].pc = "done" /\ proc[p].exc = "HTTPError") =>
             /\ log[proc[p].endpoint].status = proc[p].code
             /\ log[proc[p].endpoint].resource = << >>
       /\ (proc[p].pc = "done" /\ proc[p].exc = "URLError") =>
             /\ log[proc[p].endpoint].status = "error"
             /\ log[proc[p].endpoint].resource = << >>

\* ------------------------------------------------------------------------
\* LocalPlanFinder.fetch_page_content and fetch_page_for_link_extraction
\* ------------------------------------------------------------------------

\* max_length, the default of fetch_page_content's parameter
max_length == 50000

\* "Minimum viable content": a page counts when len(text) > 200
MinViableText == 200

FetchOps == {"fetch_page_content", "fetch_page_for_link_extraction"}

FetchUrls == {<<"https://", "a", "/", "planning">>, <<"https://", "b", "/", "local-plan">>}

\* response bodies, known by the length of the text BeautifulSoup's
\* get_text leaves after the script and style elements are removed
PageBodies == {"empty-page", "short-page", "viable-page", "huge-page"}

GetTextLen(body) ==
    CASE body = "empty-page" -> 0
      [] body = "short-page" -> MinViableText
      [] body = "viable-page" -> MinViableText + 1
      [] body = "huge-page" -> max_length + 1

PageContentTypes ==
    {<<"text/html", ";", " ", "charset=utf-8">>, <<"Text/HTML">>, <<"application/pdf">>}

\* what a GET can come back with: a response or an exception of requests
Response(status, content_type, body) ==
    [kind |-> "response", status |-> status, ctype |-> content_type, body |-> body]

RequestException(name) ==
    [kind |-> name, status |-> 0, ctype |-> << >>, body |-> "empty-page"]

NoCall == RequestException("none")

GetOutcomes ==
    {RequestException(n) : n \in {"Timeout", "ConnectionError"}}
    \cup {Response(s, <<"text/html", ";", " ", "charset=utf-8">>, "short-page") :
             s \in {403, 404, 500}}
    \cup {Response(200, t, b) : t \in PageContentTypes, b \in PageBodies}

\* response.raise_for_status() raises HTTPError
RaisesForStatus(response) == response.status >= 400 /\ response.status < 600

\* the value both methods return when the fetch failed: ("", False) and None
FetchFailed(op) ==
    IF op = "fetch_page_content"
    THEN [text |-> 0, success |-> FALSE]
    ELSE [text |-> "None"]

\* fetch_page_content from "Only process HTML content" on; the text is
\* known by its length
ProcessHtml(response) ==
    IF ~Contains(Lower(response.ctype), "text/html")
    THEN FetchFailed("fetch_page_content")
    ELSE LET n == GetTextLen(response.body)
             text == IF n > max_length THEN max_length ELSE n
         IN  IF text > MinViableText
             THEN [text |-> text, success |-> TRUE]
             ELSE FetchFailed("fetch_page_content")

\* what the method returns for a response it accepts (status 200, or no
\* HTTPError from raise_for_status)
Accept(op, response) ==
    IF op = "fetch_page_content" THEN ProcessHtml(response)
    ELSE [text |-> response.body]

\* does the method accept the response of a tier
IsAccepted(op, outcome) ==
    /\ outcome.kind = "response"
    /\ IF op = "fetch_page_content" THEN ~RaisesForStatus(outcome)
       ELSE outcome.status = 200

FetchInit ==
    /\ DownloadInit
    /\ sfx = BlankSfx
    /\ run \in {[op |-> op, url |-> u, pc |-> "tier1", t1 |-> NoCall,
                 t2 |-> NoCall, ret |-> FetchFailed(op)] :
                   op \in FetchOps, u \in FetchUrls}

\* requests.get(url, ...): the direct GET and what follows from its outcome
Tier1Get(outcome) ==
    /\ run.op \in FetchOps
    /\ run.pc = "tier1"
    /\ run' = IF IsAccepted(run.op, outcome)
              THEN [run EXCEPT !.t1 = outcome, !.pc = "done",
                               !.ret = Accept(run.op, outcome)]
              ELSE IF outcome.kind = "response" /\ outcome.status = 403
              THEN [run EXCEPT !.t1 = outcome, !.pc = "tier2"]
              ELSE [run EXCEPT !.t1 = outcome, !.pc = "done",
                               !.ret = FetchFailed(run.op)]
    /\ UNCHANGED <<shared, proc, sfx>>

\* cloudscraper.create_scraper().get(url, ...): the challenge-solving client
Tier2Get(outcome) ==
    /\ run.op \in FetchOps
    /\ run.pc = "tier2"
    /\ run' = [run EXCEPT !.t2 = outcome, !.pc = "done",
                 !.ret = IF IsAccepted(run.op, outcome)
                         THEN Accept(run.op, outcome)
                         ELSE FetchFailed(run.op)]
    /\ UNCHANGED <<shared, proc, sfx>>

FetchNext ==
    \/ \E outcome \in GetOutcomes : Tier1Get(outcome)
    \/ \E outcome \in GetOutcomes : Tier2Get(outcome)

FetchSpec == FetchInit /\ [][FetchNext]_vars

\* the fetch has returned a page
FetchSucceeded ==
    IF run.op = "fetch_page_content" THEN run.ret.success
    ELSE run.ret.text # "None"

\* C14: when a fetch has returned, the challenge-solving client was called
\* if and only if the direct GET answered 403; with 403 then 200 the fetch
\* returned success; with 403 on both tiers the returned value is a failure
\* that carries the status 403.
C14_TwoTierFetch ==
    run.pc = "done" =>
       /\ (run.t2 # NoCall) <=> (run.t1.kind = "response" /\ run.t1.status = 403)
       /\ (run.t1.status = 403 /\ run.t2.status = 200) => FetchSucceeded
       /\ (run.t1.status = 403 /\ run.t2.status = 403) =>
             /\ ~FetchSucceeded
             /\ "status" \in DOMAIN run.ret
             /\ run.ret.status = 403

\* ------------------------------------------------------------------------
\* LocalPlanFinder.construct_likely_urls
\* ------------------------------------------------------------------------
\* A URL is <<scheme, host tokens ..., path>>; a path is one token, and the
\* list the method returns is modelled by its "url" values.

\* s.replace(pat, ""): every occurrence of pat removed, left to right
RECURSIVE RemoveAll(_, _)
RemoveAll(s, pat) ==
    IF Len(s) < Len(pat) THEN s
    ELSE IF SubSeq(s, 1, Len(pat)) = pat
    THEN RemoveAll(SubSeq(s, Len(pat) + 1, Len(s)), pat)
    ELSE <<s[1]>> \o RemoveAll(Tail(s), pat)

\* the suffixes taken off the organisation's name, in the order of the loop
NameSuffixes ==
    <<<<" ", "borough", " ", "council">>,
      <<" ", "city", " ", "council">>,
      <<" ", "district", " ", "council">>,
      <<" ", "county", " ", "council">>,
      <<" ", "council">>,
      <<" ", "metropolitan", " ", "borough">>>>

RECURSIVE RemoveSuffixes(_, _)
RemoveSuffixes(s, k) ==
    IF k > Len(NameSuffixes) THEN s
    ELSE RemoveSuffixes(RemoveAll(s, NameSuffixes[k]), k + 1)

\* base_name: lower case, suffixes removed, stripped, spaces removed
BaseName(org_name) ==
    RemoveAll(Strip(RemoveSuffixes(Lower(org_name), 1)), <<" ">>)

\* fallback_domains
FallbackDomains(base_name) ==
    <<<<"www.">> \o base_name \o <<".gov.uk">>,
      base_name \o <<".gov.uk">>,
      <<"www.">> \o base_name \o <<"council", ".gov.uk">>,
      base_name \o <<"council", ".gov.uk">>>>

\* council_specific_paths: the curated paths of an organisation code
council_specific_paths(org_code) ==
    CASE org_code = "local-authority:BAE" ->
           <<"/planning-and-building-control/planning-policy/bassetlaw-local-plan-2020-2038/bassetlaw-local-plan-2020-2038/",
             "/planning-and-building-control/planning-policy">>
      [] org_code = "local-authority:BKM" ->
           <<"/planning-and-building-control/planning-policy/local-planning-guidance/local-development-plans",
             "/planning-and-building-control/planning-policy/local-planning-guidance">>
      [] org_code = "local-authority:BIR" ->
           <<"/info/20008/planning_and_development", "/info/20054/local_plan_documents",
             "/downloads/file/5433/adopted_birmingham_development_plan_2031",
             "/downloads/20054/local_plan_documents">>
      [] org_code = "local-authority:TWH" ->
           <<"/lgnl/planning_and_building_control/planning_policy_guidance/Local_plan/local_plan.aspx",
             "/lgnl/planning_and_building_control/planning_policy_guidance/Emerging-Draft-Local-Plan.aspx",
             "/lgnl/planning_and_building_control/planning_policy_guidance/emerging-draft-local-plan.aspx",
             "/lgnl/planning_and_building_control/planning_policy_guidance/new-local-plan.aspx">>
      [] org_code = "local-authority:ADU" ->
           <<"/adur-ldf", "/adur-local-plan">>
      [] org_code = "local-authority:FEN" ->
           <<"/newlocalplan", "/developmentplan">>
      [] org_code = "local-authority:BNE" ->
           <<"/planning-and-building-control/planning-policies-and-local-plans",
             "/planning-and-building-control/planning-policies-and-local-plan/barnet-local-plan-2021-2036">>
      [] org_code = "local-authority:BDG" ->
           <<"/planning-building-control-and-local-land-charges/planning-guidance-and-policies/local-plan">>
      [] org_code = "local-authority:BNH" ->
           <<"/planning/planning-policy/city-plan-part-one",
             "/planning/planning-policy/city-plan-part-two">>
      [] org_code = "local-authority:BOS" ->
           <<"/services/p/planning-policy/planning-policy-documents/development-plan">>
      [] org_code = "local-authority:BRM" ->
           <<"/council/policy/planning-policies-and-other-information/adopted-local-development-plan/the-bromsgrove-district-plan-2011-2030/adopted-bromsgrove-district-plan-2011-2030/">>
      [] org_code = "local-authority:BUN" ->
           <<"/planning/planning-policies/burnleys-local-plan/">>
      [] org_code = "local-authority:CRW" ->
           <<"/planning/planning-policy/local-plan/about-local-plan">>
      [] org_code = "local-authority:DAC" ->
           <<"/planning-development/planning-strategic-planning/new-single-local-plan">>
      [] org_code = "local-authority:DAL" ->
           <<"/planning-and-building-regs/planning/planning-and-environmental-policy/">>
      [] org_code = "local-authority:DEB" ->
           <<"/planning/planning-policy-and-local-plan/local-plan/local-plan-information-and-adoption">>
      [] org_code = "local-authority:DUR" ->
           <<"/cdp">>
      [] org_code = "local-authority:EAL" ->
           <<"/info/201164/local_plan">>
      [] org_code = "local-authority:EAT" ->
           <<"/planning-and-building/planning-policy-and-implementation/local-plan">>
      [] org_code = "local-authority:ECA" ->
           <<"/planning-and-building-control/planning-policy-and-guidance/adopted-local-plan/local-plan">>
      [] org_code = "local-authority:ELI" ->
           <<"/localplan2018">>
      [] org_code = "local-authority:ENF" ->
           <<"/services/planning/adopted-plans",
             "/services/planning/new-enfield-local-plan">>
      [] org_code = "local-authority:ERY" ->
           <<"/planning-permission-and-building-control/planning-policy-and-the-local-plan/east-riding-local-plan-update/">>
      [] org_code = "local-authority:GAT" ->
           <<"/article/3001/Local-Plan",
             "/article/3251/Core-Strategy-and-Urban-Core-Plan-for-Gateshead-and-Newcastle-2010-2030">>
      [] org_code = "local-authority:GED" ->
           <<"/resident/planningandbuildingcontrol/planningpolicy/adoptedlocalplanandpolicydocuments/">>
      [] org_code = "local-authority:GLO" ->
           <<"/planning-development/planning-policy/adopted-development-plan/">>
      [] org_code = "local-authority:GRY" ->
           <<"/article/2489/Current-Local-Plan">>
      [] org_code = "local-authority:HAL" ->
           <<"/Pages/planning/policyguidance/planningplans.aspx">>
      [] org_code = "local-authority:HOR" ->
           <<"/planning/local-plan/read-the-current-local-plan">>
      [] org_code = "local-authority:KHL" ->
           <<"/downloads/download/15/local-plan">>
      [] org_code = "local-authority:KWL" ->
           <<"/planning-and-development/planning-policy/adopted-documents/">>
      [] org_code = "local-authority:LUT" ->
           <<"/Page/Show/Environment/Planning/Regional%20and%20local%20planning/Pages/default.aspx">>
      [] org_code = "local-authority:MAL" ->
           <<"/homepage/7031/emerging_local_plan">>
      [] org_code = "local-authority:MDB" ->
           <<"/planning-and-development/planning-policy/publication-local-plan/">>
      [] org_code = "local-authority:MIK" ->
           <<"/planning-and-building/developingmk/planmk">>
      [] org_code = "local-authority:NEC" ->
           <<"/planning-policy/current-development-plan">>
      [] org_code = "local-authority:NTY" ->
           <<"/residents/planning/planning-policy/local-plan">>
      [] org_code = "local-authority:OLD" ->
           <<"/info/201229/current_local_planning_policy/2934/the_adopted_local_plan_in_oldham">>
      [] org_code = "local-authority:PEN" ->
           <<"/info/20072/planning_policies/273/local_plan">>
      [] org_code = "local-authority:POR" ->
           <<"/services/development-and-planning/planning-policy/portsmouth-local-plan/">>
      [] org_code = "local-authority:REI" ->
           <<"/info/20271/local_plan", "/info/20271/local_plan/1101/development_plan">>
      [] org_code = "local-authority:RUS" ->
           <<"/planning-growth/planning-policy/local-plan/">>
      [] org_code = "local-authority:SLG" ->
           <<"/planning-policy/local-development-plan-slough">>
      [] org_code = "local-authority:SND" ->
           <<"/article/15978/Core-Strategy-and-Development-Plan">>
      [] org_code = "local-authority:STY" ->
           <<"/article/3663/Local-Plan">>
      [] org_code = "local-authority:TAN" ->
           <<"/Planning-and-building/Planning-strategies-and-policies/Adopted-development-plan">>
      [] org_code = "local-authority:UTT" ->
           <<"/article/4878/Planning-Policy-and-the-Local-Plan">>
      [] org_code = "local-authority:WGN" ->
           <<"/Council/Strategies-Plans-and-Policies/Planning/Local-plan/CoreStrategy.aspx">>
      [] org_code = "national-park-authority:Q27178932" ->
           <<"/park-authority/living-and-working/planning-policy/local-planning-policy-pre-boundary-extension/">>
      [] org_code = "national-park-authority:Q4972284" ->
           <<"/planning/planning-policies/local-plan-for-the-broads">>
      [] OTHER -> << >>

\* generic_paths, in the order of the source
generic_paths ==
    <<"/planning", "/local-plan", "/adopted-local-plan", "/localplan",
      "/planning/local-plan", "/planning/planning-policy",
      "/planning/planningpolicies", "/planning/planning-policies",
      "/planning/planning-policy/local-plan",
      "/planning/planning-policy/existing-local-plans",
      "/planning/policy/local-plan", "/planning-policy/local-plan",
      "/planning-policy", "/planning-policy-core-strategy", "/planningpolicy",
      "/planning-and-regeneration/local-plans",
      "/planning/strategic-planning/local-plan", "/planning/strategic-planning",
      "/services/planning/planning-policy", "/planning-and-building-control",
      "/planning-and-building-control/planning-policy",
      "/planning-applications/planning-policy",
      "/planning-services/planning-policy", "/emerging-local-plan",
      "/emerging-plan", "/draft-local-plan", "/draft-plan", "/new-local-plan",
      "/planning/emerging-local-plan", "/planning/draft-local-plan",
      "/planning/new-local-plan", "/planning/planning-policy/emerging-local-plan",
      "/planning-policy/emerging-local-plan",
      "/lgnl/planning_and_building_control/planning_policy_guidance/local_plan",
      "/home/planning-development/planning-strategic-planning",
      "/home/planning-development/planning-strategic-planning/new-local-plan",
      "/planning/strategic-planning/emerging-local-plan", "/media",
      "/media/documents", "/media/downloads", "/media/files", "/media/uploads",
      "/documents", "/downloads", "/files", "/uploads", "">>

\* the tokens of a URL that belong to its path
UrlPathToks ==
    {generic_paths[i] : i \in 1..Len(generic_paths)} \cup {"/", "/jlp", "/council"}
    \cup UNION {{council_specific_paths(c)[i] :
                    i \in 1..Len(council_specific_paths(c))} :
                  c \in {"local-authority:BAE", "local-authority:ADU"}}

\* urlparse(url).netloc: empty unless the URL starts with a scheme
UrlNetloc(url) ==
    IF Len(url) = 0 \/ url[1] \notin {"https://", "http://"} THEN << >>
    ELSE LET idx == {i \in 2..Len(url) : url[i] \in UrlPathToks}
         IN  IF idx = {} THEN Tail(url)
             ELSE SubSeq(url, 2, SetMin(idx) - 1)

\* domains.append(domain) unless it is in the list already
RECURSIVE AppendNew(_, _)
AppendNew(domains, more) ==
    IF more = << >> THEN domains
    ELSE AppendNew(IF \E i \in 1..Len(domains) : domains[i] = more[1]
                   THEN domains ELSE Append(domains, more[1]),
                   Tail(more))

\* plan_domain, when the organisation has a joint plan website with a host
JointDomain(org_code, plan_website) ==
    IF org_code # "" /\ plan_website # << >> THEN UrlNetloc(plan_website)
    ELSE << >>

\* domains: joint plan domain, official domain, fallback domains
CandidateDomains(org_name, official_website, org_code, plan_website) ==
    LET plan_domain == JointDomain(org_code, plan_website)
        official_domain == UrlNetloc(official_website)
        d1 == IF plan_domain # << >> THEN <<plan_domain>> ELSE << >>
        d2 == IF official_domain # << >> THEN AppendNew(d1, <<official_domain>>)
              ELSE d1
    IN  AppendNew(d2, FallbackDomains(BaseName(org_name)))

\* paths: council-specific first, then generic
CandidatePaths(org_code) ==
    (IF org_code # "" THEN council_specific_paths(org_code) ELSE << >>)
    \o generic_paths

\* f"https://{domain}{path}"
CandidateUrl(domain, path) ==
    <<"https://">> \o domain \o (IF path = "" THEN << >> ELSE <<path>>)

\* urls: for domain in domains: for path in paths
CrossUrls(domains, paths) ==
    [k \in 1..(Len(domains) * Len(paths)) |->
        CandidateUrl(domains[((k - 1) \div Len(paths)) + 1],
                     paths[((k - 1) % Len(paths)) + 1])]

\* configured_urls: the joint plan website, when it has a host
ConfiguredUrls(org_code, plan_website) ==
    IF JointDomain(org_code, plan_website) # << >> THEN <<plan_website>>
    ELSE << >>

\* variant: the guessed domains are tried before the others
construct_likely_urls_GuessedFirst(org_name, official_website, org_code, plan_website) ==
    LET domains == CandidateDomains(org_name, official_website, org_code, plan_website)
        reversed == [i \in 1..Len(domains) |-> domains[Len(domains) + 1 - i]]
    IN  ConfiguredUrls(org_code, plan_website)
        \o CrossUrls(reversed, CandidatePaths(org_code))

\* construct_likely_urls(org_name, official_website, org_code), with
\* plan_website = self.joint_plans[org_code].get("joint-plan-website")
\* (empty when the organisation has no entry)
construct_likely_urls(org_name, official_website, org_code, plan_website) ==
    ConfiguredUrls(org_code, plan_website)
    \o CrossUrls(CandidateDomains(org_name, official_website, org_code, plan_website),
                 CandidatePaths(org_code))

OrgNames ==
    {<<"Example", " ", "Borough", " ", "Council">>,
     <<"Bassetlaw", " ", "District", " ", "Council">>,
     <<"City", " ", "of", " ", "York", " ", "Council">>}

\* official websites of organisation.csv; empty when there is none
OfficialWebsites ==
    {<< >>,
     <<"https://", "www.", "example", ".gov.uk">>,
     <<"http://", "example", ".gov.uk", "/council">>,
     <<"https://", "www.", "york", ".gov.uk", "/">>,
     <<"www.", "bassetlaw", ".gov.uk">>}

\* organisation codes; empty when the caller passes None
OrgCodes == {"", "local-authority:BAE", "local-authority:ADU", "local-authority:YOR"}

\* joint-plan-website values of joint-local-plans.json; empty when the
\* organisation has no joint plan
PlanWebsites ==
    {<< >>,
     <<"https://", "www.", "jointplan", ".org", "/local-plan">>,
     <<"https://", "www.", "example", ".gov.uk", "/jlp">>,
     <<"www.", "jointplan", ".org">>}

CandidateInit ==
    /\ DownloadInit
    /\ sfx = BlankSfx
    /\ run \in {[op |-> "construct_likely_urls", org_name |-> n,
                 official_website |-> w, org_code |-> c, plan_website |-> j,
                 done |-> FALSE, ret |-> << >>] :
                   n \in OrgNames, w \in OfficialWebsites, c \in OrgCodes,
                   j \in PlanWebsites}

\* potential_urls = self.construct_likely_urls(org_name, official_website, org_code)
ConstructUrls ==
    /\ run.op = "construct_likely_urls"
    /\ ~run.done
    /\ run' = [run EXCEPT !.done = TRUE,
                 !.ret = construct_likely_urls(run.org_name, run.official_website,
                                               run.org_code, run.plan_website)]
    /\ UNCHANGED <<shared, proc, sfx>>

CandidateNext == ConstructUrls

CandidateSpec == CandidateInit /\ [][CandidateNext]_vars

\* the host of a returned URL and its path
IsHostTok(t) == t \notin UrlPathToks

CandidateHost(url) == SelectSeq(Tail(url), IsHostTok)

CandidatePath(url) == IF url[Len(url)] \in UrlPathToks THEN url[Len(url)] ELSE ""

\* the guessed domains of the run: the fallback domains that are neither
\* the official domain nor the joint plan domain
GuessedDomains ==
    LET fallback == FallbackDomains(BaseName(run.org_name))
    IN  {fallback[i] : i \in 1..Len(fallback)}
        \ {UrlNetloc(run.official_website),
           JointDomain(run.org_code, run.plan_website)}

\* the curated paths of the run's organisation
CuratedPaths ==
    IF run.org_code = "" THEN {}
    ELSE {council_specific_paths(run.org_code)[i] :
             i \in 1..Len(council_specific_paths(run.org_code))}

\* C16: in the list construct_likely_urls returns, a configured joint plan
\* URL is the first element; every candidate on the official website's
\* domain comes before every candidate on a guessed domain; among the
\* candidates built for one domain every curated path occurs before any
\* path that is generic only; and for the official website
\* https://www.example.gov.uk without a joint plan the list holds
\* https://www.example.gov.uk/planning before every guessed-domain URL.
C16_CandidateOrder ==
    (run.op = "construct_likely_urls" /\ run.done) =>
       LET list == run.ret
           n == Len(list)
           host == [i \in 1..n |-> CandidateHost(list[i])]
           path == [i \in 1..n |-> CandidatePath(list[i])]
           joint == JointDomain(run.org_code, run.plan_website)
           official == UrlNetloc(run.official_website)
           first == IF joint # << >> THEN 2 ELSE 1
           example == <<"https://", "www.", "example", ".gov.uk", "/planning">>
       IN  /\ joint # << >> => list[1] = run.plan_website
           /\ \A j \in 1..n : host[j] \in GuessedDomains =>
                 \A i \in j..n : host[i] # official
           /\ \A j \in first..n : path[j] \notin CuratedPaths =>
                 \A c \in CuratedPaths :
                    \E i \in first..(j - 1) : host[i] = host[j] /\ path[i] = c
           /\ (run.official_website = <<"https://", "www.", "example", ".gov.uk">>
               /\ joint = << >>) =>
                 \E i \in 1..n :
                    /\ list[i] = example
                    /\ \A j \in 1..i : host[j] \notin GuessedDomains

\* a list was built for an organisation with a joint plan website, an
\* official website and curated paths: all three kinds of candidate and
\* guessed-domain candidates are in it
C16_Witness ==
    /\ run.op = "construct_likely_urls"
    /\ run.done
    /\ run.org_code = "local-authority:BAE"
    /\ run.plan_website = <<"https://", "www.", "jointplan", ".org", "/local-plan">>
    /\ run.official_website = <<"https://", "www.", "example", ".gov.uk">>
    /\ run.org_name = <<"Bassetlaw", " ", "District", " ", "Council">>
    /\ run.ret[1] = run.plan_website
    /\ \E i \in 1..Len(run.ret) :
          run.ret[i] = <<"https://", "www.", "example", ".gov.uk", "/planning">>
    /\ \E i \in 1..Len(run.ret) :
          run.ret[i] = <<"https://", "bassetlaw", "council", ".gov.uk", "/adopted-local-plan">>
    /\ Len(run.ret) = 1 + 6 * (2 + Len(generic_paths))

\* ------------------------------------------------------------------------
\* Python str methods on strings (link extraction and classification look
\* inside words, so these strings are kept character by character)
\* ------------------------------------------------------------------------

\* sub in s
StrIn(sub, s) ==
    \E i \in 1..(Len(s) - Len(sub) + 1) : SubSeq(s, i, i + Len(sub) - 1) = sub

\* s.startswith(prefix)
StrStartsWith(s, prefix) ==
    Len(prefix) <= Len(s) /\ SubSeq(s, 1, Len(prefix)) = prefix

\* s.endswith(suffix)
StrEndsWith(s, suffix) ==
    Len(suffix) <= Len(s) /\ SubSeq(s, Len(s) - Len(suffix) + 1, Len(s)) = suffix

UpperCase == "ABCDEFGHIJKLMNOPQRSTUVWXYZ"

LowerCase == "abcdefghijklmnopqrstuvwxyz"

\* c.lower() for one character
CharLower(c) ==
    LET up == {i \in 1..Len(UpperCase) : SubSeq(UpperCase, i, i) = c}
    IN  IF up = {} THEN c ELSE SubSeq(LowerCase, SetMin(up), SetMin(up))

\* s.lower(): character by character, the string taken in halves
RECURSIVE StrLower(_)
StrLower(s) ==
    IF Len(s) <= 1 THEN CharLower(s)
    ELSE StrLower(SubSeq(s, 1, Len(s) \div 2))
         \o StrLower(SubSeq(s, Len(s) \div 2 + 1, Len(s)))

\* the whitespace characters str.strip() removes, as far as inputs use them
Whitespace == {" ", "\t", "\n", "\r"}

\* s.strip()
StrStrip(s) ==
    LET idx == {i \in 1..Len(s) : SubSeq(s, i, i) \notin Whitespace}
    IN  IF idx = {} THEN "" ELSE SubSeq(s, SetMin(idx), SetMax(idx))

\* s.find(sub, start) with 1-based positions; 0 when sub does not occur
StrFind(s, sub, start) ==
    LET idx == {i \in start..(Len(s) - Len(sub) + 1) :
                   SubSeq(s, i, i + Len(sub) - 1) = sub}
    IN  IF idx = {} THEN 0 ELSE SetMin(idx)

\* the position of the first of the characters in chars at or after start;
\* Len(s) + 1 when there is none
FirstOf(s, chars, start) ==
    LET idx == {i \in start..Len(s) : SubSeq(s, i, i) \in chars}
    IN  IF idx = {} THEN Len(s) + 1 ELSE SetMin(idx)

\* ------------------------------------------------------------------------
\* urllib.parse: urlparse and urljoin, for URLs without dot segments,
\* parameters or user information
\* ------------------------------------------------------------------------

\* urlparse(url).scheme: the characters before the first ":", when no
\* "/", "?" or "#" comes before it
UrlScheme(url) ==
    LET colon == StrFind(url, ":", 1)
    IN  IF colon > 1 /\ FirstOf(url, {"/", "?", "#"}, 1) > colon
        THEN StrLower(SubSeq(url, 1, colon - 1))
        ELSE ""

\* url without the scheme and its ":"
DropScheme(url, scheme) ==
    IF scheme = "" THEN url ELSE SubSeq(url, Len(scheme) + 2, Len(url))

\* the URL after "scheme:"
AfterScheme(url) == DropScheme(url, UrlScheme(url))

\* the netloc at the head of what follows the scheme
NetlocIn(rest) ==
    IF StrStartsWith(rest, "//")
    THEN SubSeq(rest, 3, FirstOf(rest, {"/", "?", "#"}, 3) - 1)
    ELSE ""

\* urlparse(url).netloc
StrNetloc(url) == NetlocIn(AfterScheme(url))

\* what follows the scheme, without the netloc
DropNetloc(rest) ==
    IF StrStartsWith(rest, "//")
    THEN SubSeq(rest, FirstOf(rest, {"/", "?", "#"}, 3), Len(rest))
    ELSE rest

\* the URL after the netloc: path, query and fragment
AfterNetloc(url) == DropNetloc(AfterScheme(url))

\* the path at the head of path?query#fragment
PathIn(rest) == SubSeq(rest, 1, FirstOf(rest, {"?", "#"}, 1) - 1)

\* urlparse(url).path
UrlPath(url) == PathIn(AfterNetloc(url))

\* the query of path?query#fragment, q being the position of the first
\* "?" or "#"
QueryAt(rest, q) ==
    IF q <= Len(rest) /\ SubSeq(rest, q, q) = "?"
    THEN SubSeq(rest, q + 1, FirstOf(rest, {"#"}, q) - 1)
    ELSE ""

QueryIn(rest) == QueryAt(rest, FirstOf(rest, {"?", "#"}, 1))

\* urlparse(url).query
UrlQuery(url) == QueryIn(AfterNetloc(url))

\* the path up to and including its last "/"
PathDir(path) ==
    LET idx == {i \in 1..Len(path) : SubSeq(path, i, i) = "/"}
    IN  IF idx = {} THEN "/" ELSE SubSeq(path, 1, SetMax(idx))

\* urljoin(base, href) for an http(s) base
urljoin(base, href) ==
    LET origin == UrlScheme(base) \o "://" \o StrNetloc(base)
        query == IF UrlQuery(base) = "" THEN "" ELSE "?" \o UrlQuery(base)
    IN  IF href = "" THEN base
        ELSE IF UrlScheme(href) # "" THEN href
        ELSE IF StrStartsWith(href, "//") THEN UrlScheme(base) \o ":" \o href
        ELSE IF StrStartsWith(href, "/") THEN origin \o href
        ELSE IF StrStartsWith(href, "?") THEN origin \o UrlPath(base) \o href
        ELSE IF StrStartsWith(href, "#")
        THEN origin \o UrlPath(base) \o query \o href
        ELSE origin \o PathDir(UrlPath(base)) \o href

\* ------------------------------------------------------------------------
\* LocalPlanFinder.extract_local_plan_links
\* ------------------------------------------------------------------------
\* html_content is modelled by what BeautifulSoup finds in it: the list of
\* <a href=...> elements, each with its href and its text.

\* most <a> elements in a page
MaxAnchors == 2

Anchor(href, text) == [href |-> href, text |-> text]

\* the pages the links are taken from
PageUrls ==
    {"https://www.example.gov.uk/planning/policy",
     "https://www.example.gov.uk/documents/d/guest/"}

local_plan_keywords ==
    <<"local plan", "local-plan", "localplan", "emerging local plan",
      "emerging plan", "emerging-local-plan", "draft local plan", "draft plan",
      "draft-local-plan", "new local plan", "new plan", "new-local-plan",
      "core strategy", "site allocation", "development plan",
      "planning policy", "regulation 18", "regulation 19", "consultation",
      "adopted local plan">>

\* any(keyword in s for keyword in keywords)
AnyIn(keywords, s) == \E k \in 1..Len(keywords) : StrIn(keywords[k], s)

\* is_local_plan_link
is_local_plan_link(href, text) ==
    \/ AnyIn(local_plan_keywords, StrLower(StrStrip(text)))
    \/ AnyIn(local_plan_keywords, StrLower(href))

\* list.append(x) unless x is in the list
AppendUnique(list, x) ==
    IF \E i \in 1..Len(list) : list[i] = x THEN list ELSE Append(list, x)

\* extract_local_plan_links(url, html_content): the loop over the anchors
RECURSIVE extract_local_plan_links(_, _)
extract_local_plan_links(url, anchors) ==
    IF anchors = << >> THEN << >>
    ELSE LET rest == extract_local_plan_links(url, SubSeq(anchors, 1, Len(anchors) - 1))
             link == anchors[Len(anchors)]
             full_url == urljoin(url, link.href)
         IN  IF /\ is_local_plan_link(link.href, link.text)
                /\ StrStartsWith(full_url, "http")
             THEN AppendUnique(rest, full_url)
             ELSE rest

\* <a> elements of council pages
FrontierAnchors ==
    {Anchor("/planning/local-plan", "Local Plan"),
     Anchor("https://www.other.org/local-plan", "Read more"),
     Anchor("emerging-plan", " Emerging Plan "),
     Anchor("/contact", "Contact us"),
     Anchor("mailto:planning.policy@example.gov.uk", "Planning Policy team"),
     Anchor("#consultation", "Consultation"),
     Anchor("/Planning-Policy/Core-Strategy.PDF", "Core Strategy"),
     Anchor("//consult.example.net/portal", "Have your say: consultation")}

\* the anchor lists of a page: up to MaxAnchors anchors, repeats allowed
AnchorLists(anchors) == UNION {[1..n -> anchors] : n \in 0..MaxAnchors}

FrontierInit ==
    /\ DownloadInit
    /\ sfx = BlankSfx
    /\ run \in {[op |-> "extract_local_plan_links", url |-> u, anchors |-> a,
                 done |-> FALSE, ret |-> << >>] :
                   u \in PageUrls, a \in AnchorLists(FrontierAnchors)}

\* local_plan_links = self.extract_local_plan_links(url, html_content)
ExtractLocalPlanLinks ==
    /\ run.op = "extract_local_plan_links"
    /\ ~run.done
    /\ run' = [run EXCEPT !.done = TRUE,
                 !.ret = extract_local_plan_links(run.url, run.anchors)]
    /\ UNCHANGED <<shared, proc, sfx>>

FrontierNext == ExtractLocalPlanLinks

FrontierSpec == FrontierInit /\ [][FrontierNext]_vars

\* C17: every URL extract_local_plan_links returns has the host of the
\* page it was taken from, and comes from an anchor whose text or href
\* contains a local plan keyword.
C17_FrontierSameSite ==
    (run.op = "extract_local_plan_links" /\ run.done) =>
       \A i \in 1..Len(run.ret) :
          /\ StrNetloc(run.ret[i]) = StrNetloc(run.url)
          /\ \E k \in 1..Len(run.anchors) :
                /\ urljoin(run.url, run.anchors[k].href) = run.ret[i]
                /\ is_local_plan_link(run.anchors[k].href, run.anchors[k].text)

\* ------------------------------------------------------------------------
\* LocalPlanFinder.classify_document_type
\* ------------------------------------------------------------------------

\* the keys of classifications, in the order of the source
DocTypes ==
    <<"inspectors-report", "examination-hearing-statement",
      "statement-of-common-ground", "main-modifications",
      "adoption-statement", "consultation-statement",
      "representation-statement", "sustainability-appraisal",
      "strategic-environmental-assessment",
      "habitats-regulations-assessment", "equalities-impact-assessment",
      "health-impact-assessment", "strategic-housing-market-assessment",
      "strategic-housing-land-availability", "housing-delivery-test",
      "gypsy-and-traveller-assessment", "infrastructure-delivery-plan",
      "transport-assessment", "strategic-flood-risk-assessment",
      "water-cycle-study", "viability-assessment",
      "financial-viability-study", "employment-land-review",
      "retail-and-town-centre-study", "economic-development-strategy",
      "landscape-character-assessment", "conservation-area-appraisal",
      "urban-design-framework", "green-and-blue-infrastructure",
      "local-development-scheme", "statement-of-community-involvement",
      "authority-monitoring-report", "policies-map", "area-action-plan",
      "neighbourhood-plan", "supplementary-planning-document",
      "site-allocations", "development-management-policies", "core-strategy",
      "minerals-and-waste-plan", "joint-strategic-plan",
      "local-plan-regulation-19", "local-plan-regulation-18",
      "local-plan-submission", "local-plan-adopted", "local-plan-review",
      "local-plan">>

\* classifications[doc_type]: the keywords of a category
TypeKeywords(doc_type) ==
    CASE doc_type = "inspectors-report" ->
           <<"inspector report", "inspector's report", "examination report",
             "inspectors final report", "inspector's final report">>
      [] doc_type = "examination-hearing-statement" ->
           <<"examination hearing", "hearing statement", "matter statement",
             "examination document">>
      [] doc_type = "statement-of-common-ground" ->
           <<"statement of common ground", "socg", "common ground statement">>
      [] doc_type = "main-modifications" ->
           <<"main modifications", "proposed main modifications",
             "schedule of main modifications">>
      [] doc_type = "adoption-statement" ->
           <<"adoption statement", "adoption consultation statement",
             "statement of adoption">>
      [] doc_type = "consultation-statement" ->
           <<"consultation statement", "statement of consultation",
             "regulation 22 statement">>
      [] doc_type = "representation-statement" ->
           <<"representation statement", "summary of representations",
             "consultation responses">>
      [] doc_type = "sustainability-appraisal" ->
           <<"sustainability appraisal", "sa report", "sa addendum",
             "sa screening", "sa scoping", "sa non-technical summary">>
      [] doc_type = "strategic-environmental-assessment" ->
           <<"strategic environmental assessment", "sea",
             "environmental report">>
      [] doc_type = "habitats-regulations-assessment" ->
           <<"habitats regulations assessment", "hra",
             "appropriate assessment", "habitat assessment">>
      [] doc_type = "equalities-impact-assessment" ->
           <<"equalities impact assessment", "eia", "equality impact",
             "equalities assessment">>
      [] doc_type = "health-impact-assessment" ->
           <<"health impact assessment", "hia", "health assessment">>
      [] doc_type = "strategic-housing-market-assessment" ->
           <<"shma", "strategic housing market assessment",
             "housing market assessment", "housing needs assessment">>
      [] doc_type = "strategic-housing-land-availability" ->
           <<"shlaa", "strategic housing land availability",
             "housing land availability", "helaa">>
      [] doc_type = "housing-delivery-test" ->
           <<"housing delivery test", "hdt", "housing delivery action plan">>
      [] doc_type = "gypsy-and-traveller-assessment" ->
           <<"gypsy and traveller", "gtaa",
             "traveller accommodation assessment">>
      [] doc_type = "infrastructure-delivery-plan" ->
           <<"infrastructure delivery plan", "idp", "infrastructure delivery">>
      [] doc_type = "transport-assessment" ->
           <<"transport assessment", "transport study", "transport strategy",
             "local transport plan">>
      [] doc_type = "strategic-flood-risk-assessment" ->
           <<"sfra", "strategic flood risk assessment",
             "flood risk assessment", "level 1 sfra", "level 2 sfra">>
      [] doc_type = "water-cycle-study" ->
           <<"water cycle study", "wcs", "water resources">>
      [] doc_type = "viability-assessment" ->
           <<"viability assessment", "viability study",
             "whole plan viability", "cil viability", "viability appraisal">>
      [] doc_type = "financial-viability-study" ->
           <<"financial viability", "economic viability">>
      [] doc_type = "employment-land-review" ->
           <<"employment land review", "elr", "employment land study",
             "employment evidence">>
      [] doc_type = "retail-and-town-centre-study" ->
           <<"retail study", "town centre study", "retail assessment",
             "town centres">>
      [] doc_type = "economic-development-strategy" ->
           <<"economic development", "economic strategy",
             "economic assessment">>
      [] doc_type = "landscape-character-assessment" ->
           <<"landscape character assessment", "lca", "landscape assessment">>
      [] doc_type = "conservation-area-appraisal" ->
           <<"conservation area appraisal", "conservation area assessment">>
      [] doc_type = "urban-design-framework" ->
           <<"urban design framework", "design code", "design guide">>
      [] doc_type = "green-and-blue-infrastructure" ->
           <<"green infrastructure", "blue infrastructure", "gi strategy",
             "open space strategy">>
      [] doc_type = "local-development-scheme" ->
           <<"local development scheme", "lds", "local plan timetable">>
      [] doc_type = "statement-of-community-involvement" ->
           <<"statement of community involvement", "sci",
             "community involvement">>
      [] doc_type = "authority-monitoring-report" ->
           <<"authority monitoring report", "amr", "monitoring report",
             "annual monitoring">>
      [] doc_type = "policies-map" ->
           <<"policies map", "policy map", "proposals map", "key diagram">>
      [] doc_type = "area-action-plan" ->
           <<"area action plan", "aap">>
      [] doc_type = "neighbourhood-plan" ->
           <<"neighbourhood plan", "neighbourhood development plan", "ndp">>
      [] doc_type = "supplementary-planning-document" ->
           <<"supplementary planning document", "spd",
             "supplementary guidance">>
      [] doc_type = "site-allocations" ->
           <<"site allocations", "site allocation", "allocations dpd",
             "allocations development plan", "site assessment">>
      [] doc_type = "development-management-policies" ->
           <<"development management policies", "development management dpd",
             "dm policies">>
      [] doc_type = "core-strategy" ->
           <<"core strategy", "cs dpd", "strategic policies">>
      [] doc_type = "minerals-and-waste-plan" ->
           <<"minerals and waste", "minerals local plan", "waste local plan",
             "minerals plan">>
      [] doc_type = "joint-strategic-plan" ->
           <<"joint strategic plan", "joint plan", "strategic plan">>
      [] doc_type = "local-plan-regulation-19" ->
           <<"regulation 19", "publication version", "pre-submission",
             "publication draft">>
      [] doc_type = "local-plan-regulation-18" ->
           <<"regulation 18", "preferred options", "draft plan",
             "consultation draft">>
      [] doc_type = "local-plan-submission" ->
           <<"submission version", "submission draft", "submitted plan">>
      [] doc_type = "local-plan-adopted" ->
           <<"adopted local plan", "adopted plan", "final plan">>
      [] doc_type = "local-plan-review" ->
           <<"local plan review", "review of local plan", "partial review">>
      [] doc_type = "local-plan" ->
           <<"local plan", "development plan document", "dpd", "city plan",
             "borough plan", "district plan">>

\* for doc_type, keywords in classifications.items(): the loop from the
\* k-th category on, and the default after it
RECURSIVE ClassifyFrom(_, _)
ClassifyFrom(combined, k) ==
    IF k > Len(DocTypes) THEN "local-plan"
    ELSE IF AnyIn(TypeKeywords(DocTypes[k]), combined) THEN DocTypes[k]
    ELSE ClassifyFrom(combined, k + 1)

\* variant: the last category with a matching keyword wins
classify_document_type_LastMatch(url, link_text) ==
    LET combined == StrLower(url \o " " \o link_text)
        matching == {k \in 1..Len(DocTypes) :
                        AnyIn(TypeKeywords(DocTypes[k]), combined)}
    IN  IF matching = {} THEN "local-plan" ELSE DocTypes[SetMax(matching)]

\* classify_document_type(url, link_text)
classify_document_type(url, link_text) ==
    ClassifyFrom(StrLower(url \o " " \o link_text), 1)

\* how often one link is classified
MaxClassifyCalls == 2

ClassifyUrls ==
    {"",
     "https://x.gov.uk/files/doc1.pdf",
     "https://x.gov.uk/research/report.pdf",
     "https://x.gov.uk/local-plan/Inspectors-Report.PDF",
     "https://x.gov.uk/downloads/file/12/SPD",
     "https://x.gov.uk/core-strategy.pdf",
     "https://x.gov.uk/planning/sfra-level-1.pdf",
     "https://x.gov.uk/idp"}

ClassifyTexts ==
    {"",
     "Local Plan",
     "Adopted Local Plan 2020",
     "Inspector's Report on the Local Plan",
     "Sustainability Appraisal of the Core Strategy",
     "Regulation 19 Publication Version",
     "Statement of Common Ground",
     "Annual report",
     "Site Allocations DPD",
     "Hearing statement: Matter 3"}

ClassifyInit ==
    /\ DownloadInit
    /\ sfx = BlankSfx
    /\ run \in {[op |-> "classify_document_type", url |-> u, text |-> t,
                 rets |-> << >>] : u \in ClassifyUrls, t \in ClassifyTexts}

\* doc_type = self.classify_document_type(normalized_url, link_text)
ClassifyDocument ==
    /\ run.op = "classify_document_type"
    /\ Len(run.rets) < MaxClassifyCalls
    /\ run' = [run EXCEPT !.rets =
                  Append(@, classify_document_type(run.url, run.text))]
    /\ UNCHANGED <<shared, proc, sfx>>

ClassifyNext == ClassifyDocument

ClassifySpec == ClassifyInit /\ [][ClassifyNext]_vars

\* the positions, in the listed order, of the categories that have a
\* keyword occurring in the lower-cased "url text"
MatchingTypes ==
    {k \in 1..Len(DocTypes) :
        AnyIn(TypeKeywords(DocTypes[k]), StrLower(run.url \o " " \o run.text))}

\* C20: every call of classify_document_type for a (url, text) pair returns
\* the first category of the listed order that has a keyword occurring in
\* the lower-cased url + text, and "local-plan" when no category has one;
\* so repeated calls return the same tag, and the tag is always one of
\* the categories.
C20_FirstMatchWins ==
    run.op = "classify_document_type" =>
       \A i \in 1..Len(run.rets) :
          /\ run.rets[i] = IF MatchingTypes = {} THEN "local-plan"
                           ELSE DocTypes[SetMin(MatchingTypes)]
          /\ \E k \in 1..Len(DocTypes) : run.rets[i] = DocTypes[k]

\* a link that matches two categories was classified twice: the earlier
\* category, sustainability-appraisal, was returned both times
C20_Witness ==
    /\ run.op = "classify_document_type"
    /\ run.url = "https://x.gov.uk/core-strategy.pdf"
    /\ run.text = "Sustainability Appraisal of the Core Strategy"
    /\ Cardinality(MatchingTypes) >= 2
    /\ run.rets = <<"sustainability-appraisal", "sustainability-appraisal">>

\* ------------------------------------------------------------------------
\* LocalPlanFinder.extract_document_links
\* ------------------------------------------------------------------------

\* is_document: file extensions and download shapes in the href, "pdf" or
\* "download" in the link text
is_document(href, link_text) ==
    \/ StrEndsWith(StrLower(href), ".pdf")
    \/ StrEndsWith(StrLower(href), ".doc")
    \/ StrEndsWith(StrLower(href), ".docx")
    \/ AnyIn(<<".pdf", ".doc", "/downloads/", "/download/", "download.cfm",
               "download.aspx", "download.php", "getfile.aspx",
               "getdocument.aspx", "viewfile.aspx", "/file/", "/document/",
               "/docs/">>, StrLower(href))
    \/ AnyIn(<<"pdf", "download">>, StrLower(link_text))

doc_keywords ==
    <<"local plan", "core strategy", "adopted", "submission", "regulation",
      "dpd", "spd", "sustainability", "appraisal", "assessment", "viability",
      "evidence", "inspector", "examination", "shma", "sfra", "policies map",
      "site allocation", "area action plan", "development plan">>

has_doc_keyword(link_text) == AnyIn(doc_keywords, StrLower(link_text))

\* scheme://netloc/path?query of urlparse(full_url): the fragment is dropped
WithoutFragment(full_url) ==
    UrlScheme(full_url) \o "://" \o StrNetloc(full_url) \o UrlPath(full_url)
    \o (IF UrlQuery(full_url) # "" THEN "?" \o UrlQuery(full_url) ELSE "")

\* normalized_url: urljoin(url, href) without its fragment
NormalizedUrl(url, href) == WithoutFragment(urljoin(url, href))

\* normalized_url.endswith(('.pdf', '.doc', '.docx'))
EndsWithDocExt(normalized_url) ==
    \/ StrEndsWith(normalized_url, ".pdf")
    \/ StrEndsWith(normalized_url, ".doc")
    \/ StrEndsWith(normalized_url, ".docx")

\* listing_page_indicators, with the entries that are None left out
listing_page_indicators(normalized_url) ==
    <<"/info/">>
    \o (IF ~StrIn("/downloads/file/", normalized_url) THEN <<"/downloads/">> ELSE << >>)
    \o <<"-documents", "_documents">>
    \o (IF ~(StrEndsWith(normalized_url, ".pdf") \/ StrIn("/documents/d/", normalized_url))
        THEN <<"/documents/">> ELSE << >>)
    \o <<"/planning-policy-plan-making">>
    \o (IF ~EndsWithDocExt(normalized_url)
        THEN <<"/supplementary-planning-documents-spds">> ELSE << >>)

is_listing_page(normalized_url) ==
    AnyIn(listing_page_indicators(normalized_url), normalized_url)

is_clearly_file(normalized_url) ==
    \/ EndsWithDocExt(normalized_url)
    \/ AnyIn(<<"/downloads/file/", "/documents/d/", "download.cfm?",
               "download.aspx?", "getfile.aspx?">>, normalized_url)

\* variant: a listing page is skipped whatever else its URL looks like
SkipsListingPage_NoOverride(normalized_url) == is_listing_page(normalized_url)

\* if is_listing_page and not is_clearly_file: continue
SkipsListingPage(normalized_url) ==
    is_listing_page(normalized_url) /\ ~is_clearly_file(normalized_url)

\* the conditions under which the loop body reaches doc_links.append for
\* an anchor whose URL is not in doc_links yet
ReachesAppend(url, link) ==
    LET link_text == StrStrip(link.text)
        normalized_url == NormalizedUrl(url, link.href)
    IN  /\ is_document(link.href, link_text) \/ has_doc_keyword(link_text)
        /\ StrStartsWith(normalized_url, "http")
        /\ ~SkipsListingPage(normalized_url)

\* the dictionary appended to doc_links
DocLink(url, link) ==
    LET link_text == StrStrip(link.text)
        normalized_url == NormalizedUrl(url, link.href)
    IN  [url |-> normalized_url, text |-> link_text,
         doc_type |-> classify_document_type(normalized_url, link_text),
         source_url |-> url]

\* extract_document_links(url, html_content): the loop over the anchors
RECURSIVE extract_document_links(_, _)
extract_document_links(url, anchors) ==
    IF anchors = << >> THEN << >>
    ELSE LET doc_links == extract_document_links(url, SubSeq(anchors, 1, Len(anchors) - 1))
             link == anchors[Len(anchors)]
         IN  IF /\ ReachesAppend(url, link)
                /\ ~\E i \in 1..Len(doc_links) :
                       doc_links[i].url = NormalizedUrl(url, link.href)
             THEN Append(doc_links, DocLink(url, link))
             ELSE doc_links

\* <a> elements of council pages
DocumentAnchors ==
    {Anchor("/info/20054/local_plan_documents", "Local Plan documents"),
     Anchor("/info/20054/local_plan_documents.pdf", "Local Plan documents"),
     Anchor("/info/200/Adopted-Plan.PDF", "Adopted Plan"),
     Anchor("/downloads/file/5433/adopted_plan", " Download the adopted plan "),
     Anchor("local-plan-2020", "Read more"),
     Anchor("/files/core-strategy.pdf#page=2", "Core Strategy"),
     Anchor("/files/core-strategy.pdf", "Core Strategy (PDF)"),
     Anchor("mailto:policy@example.gov.uk?subject=plan.pdf", "Email us"),
     Anchor("/planning/supplementary-planning-documents-spds", "SPD"),
     Anchor("/documents/evidence/shma.doc", "SHMA")}

DocLinkInit ==
    /\ DownloadInit
    /\ sfx = BlankSfx
    /\ run \in {[op |-> "extract_document_links", url |-> u, anchors |-> a,
                 done |-> FALSE, ret |-> << >>] :
                   u \in PageUrls, a \in AnchorLists(DocumentAnchors)}

\* doc_links = self.extract_document_links(url, html_content)
ExtractDocumentLinks ==
    /\ run.op = "extract_document_links"
    /\ ~run.done
    /\ run' = [run EXCEPT !.done = TRUE,
                 !.ret = extract_document_links(run.url, run.anchors)]
    /\ UNCHANGED <<shared, proc, sfx>>

DocLinkNext == ExtractDocumentLinks

DocLinkSpec == DocLinkInit /\ [][DocLinkNext]_vars

\* the URLs of the returned document links
KeptUrls == {run.ret[i].url : i \in 1..Len(run.ret)}

\* the stage-one test: extension, download handler or document keyword
LooksLikeDocument(link) ==
    \/ is_document(link.href, StrStrip(link.text))
    \/ has_doc_keyword(StrStrip(link.text))

\* the URL contains one of the listing-page patterns
MatchesListingPattern(normalized_url) ==
    AnyIn(<<"/info/", "/downloads/", "-documents", "_documents", "/documents/",
            "/planning-policy-plan-making",
            "/supplementary-planning-documents-spds">>, normalized_url)

\* the URL ends in a document file extension, in either case
HasFileExtension(normalized_url) == EndsWithDocExt(StrLower(normalized_url))

\* the URL has one of the direct-download path shapes
HasDownloadShape(normalized_url) ==
    AnyIn(<<"/downloads/file/", "/documents/d/", "download.cfm?",
            "download.aspx?", "getfile.aspx?">>, normalized_url)

\* C18: of the http links that pass the stage-one test, one whose
\* normalized URL matches a listing-page pattern and has neither a file
\* extension nor a direct-download shape is not returned; the link with
\* the same href and ".pdf" appended is returned; and one whose normalized
\* URL matches a listing-page pattern and has a file extension or a
\* direct-download shape is returned.
C18_ListingOverride ==
    (run.op = "extract_document_links" /\ run.done) =>
       \A k \in 1..Len(run.anchors) :
          LET link == run.anchors[k]
              n == NormalizedUrl(run.url, link.href)
              override == HasFileExtension(n) \/ HasDownloadShape(n)
          IN  (LooksLikeDocument(link) /\ StrStartsWith(n, "http")) =>
                 /\ (MatchesListingPattern(n) /\ ~override) =>
                       /\ n \notin KeptUrls
                       /\ \A j \in 1..Len(run.anchors) :
                             run.anchors[j].href = link.href \o ".pdf" =>
                                NormalizedUrl(run.url, run.anchors[j].href) \in KeptUrls
                 /\ (MatchesListingPattern(n) /\ override) => n \in KeptUrls

\* C19 as stated: the returned URLs are those of the anchors for which
\* isCandidateFile(url) OR (looksLikeDocument(url, text) AND NOT
\* isListingPage(url)) holds.
C19_TwoStageAsStated ==
    (run.op = "extract_document_links" /\ run.done) =>
       KeptUrls =
          {NormalizedUrl(run.url, run.anchors[k].href) : k \in
              {k \in 1..Len(run.anchors) :
                  LET n == NormalizedUrl(run.url, run.anchors[k].href)
                  IN  \/ is_clearly_file(n)
                      \/ LooksLikeDocument(run.anchors[k]) /\ ~is_listing_page(n)}}

\* the anchors the amended predicate accepts
AcceptedAnchors ==
    {k \in 1..Len(run.anchors) :
        LET n == NormalizedUrl(run.url, run.anchors[k].href)
        IN  /\ LooksLikeDocument(run.anchors[k])
            /\ StrStartsWith(n, "http")
            /\ is_clearly_file(n) \/ ~is_listing_page(n)}

\* C19, amended: the returned URLs are those of the anchors for which
\* looksLikeDocument(href, text) AND the normalized URL is http(s) AND
\* (isCandidateFile(url) OR NOT isListingPage(url)) holds; each URL is
\* returned once, in the order of its first accepted anchor and with that
\* anchor's text.
C19_TwoStagePredicate ==
    (run.op = "extract_document_links" /\ run.done) =>
       /\ KeptUrls = {NormalizedUrl(run.url, run.anchors[k].href) : k \in AcceptedAnchors}
       /\ \A i, j \in 1..Len(run.ret) : run.ret[i].url = run.ret[j].url => i = j
       /\ \A i \in 1..Len(run.ret) :
             LET first == SetMin({k \in AcceptedAnchors :
                             NormalizedUrl(run.url, run.anchors[k].href) = run.ret[i].url})
             IN  /\ run.ret[i].text = StrStrip(run.anchors[first].text)
                 /\ \A j \in 1..Len(run.ret) : i < j =>
                       first < SetMin({k \in AcceptedAnchors :
                                  NormalizedUrl(run.url, run.anchors[k].href) = run.ret[j].url})

\* a page under /documents/d/ with a listing-page link that is kept for
\* its file extension and a relative link that fails the stage-one test
\* although its URL has a direct-download shape
C19_Witness ==
    /\ run.op = "extract_document_links"
    /\ run.done
    /\ run.url = "https://www.example.gov.uk/documents/d/guest/"
    /\ run.anchors = <<Anchor("local-plan-2020", "Read more"),
                       Anchor("/documents/evidence/shma.doc", "SHMA")>>
    /\ is_clearly_file(NormalizedUrl(run.url, "local-plan-2020"))
    /\ is_listing_page(NormalizedUrl(run.url, "/documents/evidence/shma.doc"))
    /\ KeptUrls = {"https://www.example.gov.uk/documents/evidence/shma.doc"}

\* ------------------------------------------------------------------------
\* LocalPlanFinder.find_local_plan
\* ------------------------------------------------------------------------

\* the characters of a URL kept as tokens
RECURSIVE UrlString(_)
UrlString(toks) == IF toks = << >> THEN "" ELSE Head(toks) \o UrlString(Tail(toks))

\* codes the finder is run for; the last one is in no row of organisation.csv
FindOrgCodes == {"local-authority:BAE", "local-authority:YOR", "local-authority:XXX"}

\* self.organisations: organisation.csv rows by code
organisations(org_code) ==
    CASE org_code = "local-authority:BAE" ->
            [name |-> <<"Bassetlaw", " ", "District", " ", "Council">>,
             website |-> <<"https://", "www.", "bassetlaw", ".gov.uk">>]
      [] org_code = "local-authority:YOR" ->
            [name |-> <<"City", " ", "of", " ", "York", " ", "Council">>,
             website |-> <<"https://", "www.", "york", ".gov.uk", "/">>]
      [] OTHER -> [name |-> << >>, website |-> << >>]

\* get_organisation_name: the name, empty for None
get_organisation_name(org_code) == organisations(org_code).name

\* get_organisation_website: the website, empty for None
get_organisation_website(org_code) == organisations(org_code).website

\* the web as one run finds it
Sites == {"offline", "bassetlaw", "york", "york-index"}

\* the pages of a site that answer fetch_page_content with text
LivePages(site) ==
    CASE site = "bassetlaw" ->
            {"https://www.bassetlaw.gov.uk/planning-and-building-control/planning-policy",
             "https://www.bassetlaw.gov.uk/local-plan"}
      [] site = "york" ->
            {"https://www.york.gov.uk/planning",
             "https://www.york.gov.uk/local-plan",
             "https://www.york.gov.uk/adopted-local-plan",
             "https://www.york.gov.uk/localplan",
             "https://www.york.gov.uk/planning/local-plan-examination",
             "https://www.york.gov.uk/planning/core-strategy",
             "https://www.york.gov.uk/planning/site-allocations",
             "https://www.york.gov.uk/planning/emerging-plan",
             "https://www.york.gov.uk/planning/local-plan-review",
             "https://consult.york.example/portal"}
      [] site = "york-index" -> {"https://www.york.gov.uk/planning/local-plan"}
      [] OTHER -> {}

\* what fetch_page_for_link_extraction returns: the <a> elements of the
\* HTML, or None
Html(anchors) == [none |-> FALSE, anchors |-> anchors]

NoHtml == [none |-> TRUE, anchors |-> << >>]

\* the HTML of the pages of a site
PageHtml(site, url) ==
    CASE site = "bassetlaw"
         /\ url = "https://www.bassetlaw.gov.uk/planning-and-building-control/planning-policy" ->
            Html(<<Anchor("/planning-and-building-control/planning-policy/bassetlaw-local-plan-2020-2038/bassetlaw-local-plan-2020-2038/",
                          "Bassetlaw Local Plan 2020-2038"),
                   Anchor("/media/8615/adopted-plan.pdf", "Adopted policies (PDF)")>>)
      [] site = "york" /\ url = "https://www.york.gov.uk/planning" ->
            Html(
            <<Anchor("/planning/local-plan-examination", "Local Plan examination"),
              Anchor("/local-plan", "Local Plan"),
              Anchor("/planning/core-strategy", "Core Strategy"),
              Anchor("/planning/site-allocations", " Site allocations "),
              Anchor("/planning/emerging-plan", "Emerging plan"),
              Anchor("https://consult.york.example/portal", "Consultation"),
              Anchor("/planning/draft-plan", "Draft plan"),
              Anchor("/planning/local-plan-review", "Local Plan review"),
              Anchor("/planning/evidence-base", "Evidence base"),
              Anchor("/files/adopted-policies.pdf", "Adopted policies (PDF)"),
              Anchor("download.cfm?id=7", "Download the inspector's report")>>)
      [] site = "york" /\ url = "https://www.york.gov.uk/local-plan" -> NoHtml
      [] site = "york" /\ url = "https://www.york.gov.uk/adopted-local-plan" ->
            Html(
            <<Anchor("/downloads/file/12/sfra", "SFRA"),
              Anchor("/files/Viability.DOC", "Viability assessment"),
              Anchor("/download/88", "Download appraisal"),
              Anchor("/files/Housing-Topic-Paper.docx?v=2", "Housing topic paper"),
              Anchor("/files/adopted-policies.pdf", "Adopted policies")>>)
      [] site = "york" /\ url = "https://www.york.gov.uk/planning/local-plan-examination" ->
            Html(<<Anchor("/files/matters.pdf?v=2", "Examination matters")>>)
      [] site = "york" /\ url = "https://www.york.gov.uk/planning/core-strategy" ->
            Html(<<Anchor("/documents/d/guest/core", "Submission version")>>)
      [] site = "york-index" /\ url = "https://www.york.gov.uk/planning/local-plan" ->
            Html([k \in 1..11 |->
                    Anchor("/planning/local-plan/" \o SubSeq("abcdefghijk", k, k),
                           "Local Plan part " \o SubSeq("abcdefghijk", k, k))])
      [] OTHER -> Html(<< >>)

\* "Stop after finding 3 successful pages"
MaxCandidatePages == 3

\* list(discovered_links)[:10]
MaxDiscoveredLinks == 10

\* "Stop after we have enough pages total"
MaxPages == 8

\* all_pdf_links[:50]
MaxPromptDocs == 50

\* the priority of a lower-cased URL: lower is better
PriorityOf(url) ==
    IF AnyIn(<<"download.cfm?", "download.aspx?", "getfile.aspx?">>, url) THEN 0
    ELSE IF StrEndsWith(url, ".pdf") \/ StrIn(".pdf?", url) THEN 1
    ELSE IF StrEndsWith(url, ".doc") \/ StrEndsWith(url, ".docx") \/ StrIn(".doc?", url)
    THEN 2
    ELSE IF StrIn("/downloads/file/", url) \/ StrIn("/documents/d/", url) THEN 3
    ELSE IF StrIn("/download/", url) \/ StrIn("/downloads/", url) THEN 4
    ELSE 10

\* document_priority(doc)
document_priority(doc) == PriorityOf(StrLower(doc.url))

\* the elements of docs with priority p, in the order of docs
WithPriority(docs, p) ==
    LET HasPriority(doc) == document_priority(doc) = p
    IN  SelectSeq(docs, HasPriority)

\* all_pdf_links.sort(key=document_priority): list.sort is stable
SortByPriority(docs) ==
    WithPriority(docs, 0) \o WithPriority(docs, 1) \o WithPriority(docs, 2)
    \o WithPriority(docs, 3) \o WithPriority(docs, 4) \o WithPriority(docs, 10)

\* is_likely_webpage of the validation after the "[" branch (with_d) and of
\* the "{" fallback branch, which has no '/documents/d/' test
is_likely_webpage(url, with_d) ==
    /\ ~EndsWithDocExt(url)
    /\ ~AnyIn(<<"download.cfm", "download.aspx", "download.php", "getfile",
                "/downloads/file/", ".pdf">>, StrLower(url))
    /\ with_d => ~StrIn("/documents/d/", StrLower(url))

\* a document of a plan after validation: the URL cleared when it looks
\* like a web page, and the endpoint of what is left
ValidateDocument(doc, with_d) ==
    LET url == IF is_likely_webpage(doc.document_url, with_d) THEN ""
               ELSE doc.document_url
    IN  [document_url |-> url, endpoint |-> calculate_sha256(url)]

\* a plan after validation
ValidatePlan(plan, with_d) ==
    [document_url |->
        IF plan.document_url # "" /\ is_likely_webpage(plan.document_url, with_d)
        THEN "" ELSE plan.document_url,
     documents |->
        [k \in 1..Len(plan.documents) |-> ValidateDocument(plan.documents[k], with_d)]]

\* the list find_local_plan returns when it gives up
ErrorResult(org_code, org_name, error) ==
    <<[organisation |-> org_code, organisation_name |-> org_name, error |-> error]>>

\* a URL the extraction service makes up
FabricatedUrl == "https://www.york.gov.uk/files/local-plan-2040.pdf"

\* what self.client.messages.create can come back with: an exception, a
\* text without JSON, a JSON array of plans, or one JSON object
Plan(document_url, documents) ==
    [document_url |-> document_url, documents |-> documents]

ResponseUrls(docs, pages) ==
    {"", FabricatedUrl, pages[1]}
    \cup (IF docs = << >> THEN {} ELSE {docs[1].url, docs[Len(docs)].url})

ApiOutcomes(docs, pages) ==
    {[kind |-> "exception", plans |-> << >>], [kind |-> "no-json", plans |-> << >>],
     [kind |-> "array", plans |-> << >>]}
    \cup {[kind |-> "array", plans |-> <<Plan(u, <<[document_url |-> v]>>)>>] :
             u \in {"", FabricatedUrl}, v \in ResponseUrls(docs, pages)}
    \cup {[kind |-> "array", plans |-> <<Plan(u, << >>)>>] :
             u \in ResponseUrls(docs, pages)}
    \cup {[kind |-> "object", plans |-> <<Plan(u, << >>)>>] :
             u \in ResponseUrls(docs, pages)}

\* counting the calls of fetch_page_content by URL
NoFetches == [u \in {} |-> 0]

FetchCount(fetched, url) == IF url \in DOMAIN fetched THEN fetched[url] ELSE 0

CountFetch(fetched, url) ==
    [u \in DOMAIN fetched \cup {url} |->
        IF u = url THEN FetchCount(fetched, url) + 1 ELSE fetched[u]]

SeqToSet(s) == {s[k] : k \in 1..Len(s)}

FindInit ==
    /\ DownloadInit
    /\ sfx = BlankSfx
    /\ run \in {[op |-> "find_local_plan", org_code |-> c, site |-> s,
                 pc |-> "start", org_name |-> << >>, likely_urls |-> << >>,
                 i |-> 1, pages_content |-> << >>, discovered_links |-> {},
                 links |-> << >>, j |-> 1, all_pdf_links |-> << >>,
                 fetched |-> NoFetches, api_calls |-> 0, prompt_docs |-> << >>,
                 ret |-> << >>] : c \in FindOrgCodes, s \in Sites}

\* org_name = self.get_organisation_name(org_code) ... likely_urls =
\* self.construct_likely_urls(org_name, official_website, org_code);
\* joint-local-plans.json has no entry for the organisation
LookupOrganisation ==
    /\ run.op = "find_local_plan"
    /\ run.pc = "start"
    /\ run' = IF get_organisation_name(run.org_code) = << >>
              THEN [run EXCEPT !.pc = "done",
                       !.ret = ErrorResult(run.org_code, << >>,
                                           "Organisation code not found in organisation.csv")]
              ELSE [run EXCEPT !.pc = "candidates",
                       !.org_name = get_organisation_name(run.org_code),
                       !.likely_urls =
                           construct_likely_urls(get_organisation_name(run.org_code),
                                                 get_organisation_website(run.org_code),
                                                 run.org_code, << >>)]
    /\ UNCHANGED <<shared, proc, sfx>>

\* the links and documents of a fetched page: nothing when no HTML came
LinksOf(url, html) ==
    IF html.none THEN {} ELSE SeqToSet(extract_local_plan_links(url, html.anchors))

DocsOf(url, html) ==
    IF html.none THEN << >> ELSE extract_document_links(url, html.anchors)

\* the elements of a set, one after the other
RECURSIVE SetToSeq(_)
SetToSeq(S) ==
    IF S = {} THEN << >>
    ELSE LET x == CHOOSE y \in S : TRUE
         IN  <<x>> \o SetToSeq(S \ {x})

\* list(discovered_links): a set is iterated in an order the program does
\* not choose; the orders tried are the rotations of one enumeration and
\* of its reverse
Rotations(s) ==
    {[k \in 1..Len(s) |-> s[((k + r - 1) % Len(s)) + 1]] : r \in 0..(Len(s) - 1)}

Reverse(s) == [k \in 1..Len(s) |-> s[Len(s) + 1 - k]]

ListOrders(S) ==
    IF S = {} THEN {<< >>}
    ELSE Rotations(SetToSeq(S)) \cup Rotations(Reverse(SetToSeq(S)))

\* where the run goes after the pass for the j-th discovered link
AfterLink(links, j) == IF j >= Len(links) THEN "analyse" ELSE "discovered"

\* one pass of "for i, result in enumerate(likely_urls, 1)" for a page
\* whose fetch gave ok
CandidatePass(r, url, ok, html) ==
    LET pages == IF ok THEN Append(r.pages_content, url) ELSE r.pages_content
        links == IF ok THEN r.discovered_links \cup LinksOf(url, html)
                 ELSE r.discovered_links
    IN  [r EXCEPT !.fetched = CountFetch(@, url),
                  !.pages_content = pages,
                  !.discovered_links = links,
                  !.all_pdf_links = IF ok THEN @ \o DocsOf(url, html) ELSE @,
                  !.i = @ + 1,
                  !.pc = IF (ok /\ Len(pages) >= MaxCandidatePages)
                            \/ r.i = Len(r.likely_urls)
                         THEN "list" ELSE "candidates"]

TryCandidate ==
    /\ run.op = "find_local_plan"
    /\ run.pc = "candidates"
    /\ run' = CandidatePass(run, UrlString(run.likely_urls[run.i]),
                            UrlString(run.likely_urls[run.i]) \in LivePages(run.site),
                            PageHtml(run.site, UrlString(run.likely_urls[run.i])))
    /\ UNCHANGED <<shared, proc, sfx>>

\* list(discovered_links)[:10]
ListDiscovered(order) ==
    /\ run.op = "find_local_plan"
    /\ run.pc = "list"
    /\ run' = [run EXCEPT
                 !.links = SubSeq(order, 1, IF Len(order) < MaxDiscoveredLinks
                                            THEN Len(order) ELSE MaxDiscoveredLinks),
                 !.pc = AfterLink(order, 0)]
    /\ UNCHANGED <<shared, proc, sfx>>

\* variant: the loop over the discovered links does not stop at 8 pages
DiscoveredPass_NoBreak(r, link, ok, html) ==
    [r EXCEPT !.fetched = CountFetch(@, link),
              !.pages_content = IF ok THEN Append(@, link) ELSE @,
              !.all_pdf_links = IF ok THEN @ \o DocsOf(link, html) ELSE @,
              !.j = @ + 1,
              !.pc = AfterLink(r.links, r.j)]

\* one pass of "for link in list(discovered_links)[:10]" for a link that
\* is not in pages_content and whose fetch gave ok
DiscoveredPass(r, link, ok, html) ==
    LET pages == IF ok THEN Append(r.pages_content, link) ELSE r.pages_content
    IN  [r EXCEPT !.fetched = CountFetch(@, link),
                  !.pages_content = pages,
                  !.all_pdf_links = IF ok THEN @ \o DocsOf(link, html) ELSE @,
                  !.j = @ + 1,
                  !.pc = IF ok /\ Len(pages) >= MaxPages THEN "analyse"
                         ELSE AfterLink(r.links, r.j)]

FetchDiscovered ==
    /\ run.op = "find_local_plan"
    /\ run.pc = "discovered"
    /\ run' = IF run.links[run.j] \in SeqToSet(run.pages_content)
              THEN [run EXCEPT !.j = @ + 1, !.pc = AfterLink(run.links, run.j)]
              ELSE DiscoveredPass(run, run.links[run.j],
                                  run.links[run.j] \in LivePages(run.site),
                                  PageHtml(run.site, run.links[run.j]))
    /\ UNCHANGED <<shared, proc, sfx>>

\* variant: a run without pages returns an empty list
ReturnNoContent_EmptyList ==
    /\ run.op = "find_local_plan"
    /\ run.pc = "analyse"
    /\ run.pages_content = << >>
    /\ run' = [run EXCEPT !.pc = "done", !.ret = << >>]
    /\ UNCHANGED <<shared, proc, sfx>>

\* if not pages_content: return [{..., "error": ...}]
ReturnNoContent ==
    /\ run.op = "find_local_plan"
    /\ run.pc = "analyse"
    /\ run.pages_content = << >>
    /\ run' = [run EXCEPT !.pc = "done",
                 !.ret = ErrorResult(run.org_code, run.org_name,
                                     "Could not fetch any page content from likely URLs")]
    /\ UNCHANGED <<shared, proc, sfx>>

\* what the run returns for an answer of the extraction service
ResultOf(r, outcome) ==
    CASE outcome.kind = "exception" ->
            ErrorResult(r.org_code, r.org_name, "str(e)")
      [] outcome.kind = "no-json" ->
            ErrorResult(r.org_code, r.org_name, "Could not parse JSON response from Claude")
      [] OTHER ->
            [k \in 1..Len(outcome.plans) |->
                ValidatePlan(outcome.plans[k], outcome.kind = "array")]

\* all_pdf_links.sort(key=document_priority), the prompt with the first 50
\* documents, self.client.messages.create, the validation and the return
AnalyseWithClaude(sorted) ==
    \E outcome \in ApiOutcomes(sorted, run.pages_content) :
       /\ run' = [run EXCEPT !.pc = "done",
                    !.all_pdf_links = sorted,
                    !.prompt_docs = SubSeq(sorted, 1, IF Len(sorted) < MaxPromptDocs
                                                      THEN Len(sorted) ELSE MaxPromptDocs),
                    !.api_calls = @ + 1,
                    !.ret = ResultOf(run, outcome)]
       /\ UNCHANGED <<shared, proc, sfx>>

CallClaude ==
    /\ run.op = "find_local_plan"
    /\ run.pc = "analyse"
    /\ run.pages_content # << >>
    /\ AnalyseWithClaude(SortByPriority(run.all_pdf_links))

FindNext ==
    \/ LookupOrganisation
    \/ TryCandidate
    \/ \E order \in ListOrders(run.discovered_links) : ListDiscovered(order)
    \/ FetchDiscovered
    \/ ReturnNoContent
    \/ CallClaude

FindSpec == FindInit /\ [][FindNext]_vars

\* C21: when find_local_plan has returned for an organisation code that is
\* in no row of organisation.csv, or after a run in which no fetched page
\* answered with content, the result is one record with an error, never an
\* empty list, and the extraction service was not called.
C21_TerminalFailureExplicit ==
    (/\ run.op = "find_local_plan"
     /\ run.pc = "done"
     /\ \/ run.org_code \notin {"local-authority:BAE", "local-authority:YOR"}
        \/ \A u \in DOMAIN run.fetched : u \notin LivePages(run.site))
    => /\ Len(run.ret) = 1
       /\ "error" \in DOMAIN run.ret[1]
       /\ run.ret[1].error # ""
       /\ run.ret[1].organisation = run.org_code
       /\ run.api_calls = 0

\* every candidate of a known organisation was tried, none answered, and
\* the run returned the error
C21_Witness ==
    /\ run.op = "find_local_plan"
    /\ run.pc = "done"
    /\ run.org_code = "local-authority:BAE"
    /\ run.site = "offline"
    /\ run.i > Len(run.likely_urls)
    /\ Len(run.likely_urls) > 100
    /\ run.ret[1].error = "Could not fetch any page content from likely URLs"
    /\ run.api_calls = 0

\* the URLs of the document links extract_document_links produced in the run
CandidateDocumentUrls == {run.all_pdf_links[k].url : k \in 1..Len(run.all_pdf_links)}

\* C22: in the plans find_local_plan returns, every document-url that is
\* not empty, the plan's own and that of each entry of its documents, is
\* the URL of a document link extract_document_links produced in the run.
C22_DocumentUrlsTraceable ==
    (run.op = "find_local_plan" /\ run.pc = "done") =>
       \A k \in 1..Len(run.ret) :
          "error" \notin DOMAIN run.ret[k] =>
             /\ run.ret[k].document_url \in CandidateDocumentUrls \cup {""}
             /\ \A d \in 1..Len(run.ret[k].documents) :
                   run.ret[k].documents[d].document_url \in CandidateDocumentUrls \cup {""}

\* ------------------------------------------------------------------------
\* Two processes download the same URL at the same time
\* ------------------------------------------------------------------------

\* one step of process p when both processes are given the document UrlA
\* by find-local-plan.py and each calls download_document once
ConcurrentStep(p) ==
    \/ Call(p, UrlA, calculate_sha256(UrlA), "find")
    \/ Lookup(p)
    \/ \E body \in Bodies, content_type \in ContentTypes :
          FetchOk(p, body, content_type)
    \/ \E code \in HttpErrorCodes : FetchHttpError(p, code)
    \/ FetchTransportError(p)
    \/ OpenResource(p)
    \/ OpenResourceFault(p)
    \/ WriteResource(p)
    \/ WriteResourceFault(p)
    \/ OpenLog(p)
    \/ DumpLog(p)
    \/ UnlinkAlias(p)
    \/ LinkAlias(p)
    \/ LinkAliasFault(p)
    \/ Except(p)

\* the processes are interleaved step by step
ConcurrentNext == \E p \in Procs : ConcurrentStep(p)

ConcurrentSpec == Init /\ [][ConcurrentNext]_vars

\* C23: when two processes run download_document for the same URL, at most
\* one of them performs the network fetch, neither raises, and when both
\* have returned the ledger holds one complete record for the URL, which
\* both return.
C23_OneFetchPerUrl ==
    (\A p \in Procs : InCall(p) /\ proc[p].url = UrlA) =>
       /\ proc[1].net + proc[2].net <= 1
       /\ \A p \in Procs : proc[p].ret # "raised"
       /\ (\A p \in Procs : proc[p].pc = "done") =>
             /\ log[calculate_sha256(UrlA)].state = "entry"
             /\ \A p \in Procs : proc[p].entry = log[calculate_sha256(UrlA)]

RECURSIVE StrReplace(_, _, _)
StrReplace(s, old, new) ==
    IF StrFind(s, old, 1) = 0 THEN s
    ELSE SubSeq(s, 1, StrFind(s, old, 1) - 1) \o new
         \o StrReplace(SubSeq(s, StrFind(s, old, 1) + Len(old), Len(s)), old, new)

\* rows of var/cache/organisation.csv: name, organisation,
\* local-planning-authority
OrganisationRows ==
    <<[name |-> "Bolton Metropolitan Borough Council",
       organisation |-> "local-authority:BOL", lpa |-> "E60000025"],
      [name |-> "Manchester City Council",
       organisation |-> "local-authority:MAN", lpa |-> "E60000027"],
      [name |-> "Bassetlaw District Council",
       organisation |-> "local-authority:BAE", lpa |-> "E60000141"],
      [name |-> "Brighton and Hove City Council",
       organisation |-> "local-authority:BNH", lpa |-> "E60000236"],
      [name |-> "Bedford Borough Council",
       organisation |-> "local-authority:BDF", lpa |-> "E60000192"],
      [name |-> "Durham County Council",
       organisation |-> "local-authority:DUR", lpa |-> "E60000001"],
      [name |-> "City of Durham Parish Council",
       organisation |-> "parish-council:DUR", lpa |-> ""],
      [name |-> " City of York Council ",
       organisation |-> "local-authority:YOR", lpa |-> "E60000065"],
      [name |-> "Peak District National Park Authority",
       organisation |-> "", lpa |-> "E60000321"]>>

\* a dictionary value: organisations[name.lower()], or {} when not found
DictEntry(organisation, lpa) ==
    [found |-> TRUE, organisation |-> organisation, lpa |-> lpa]

EmptyDict == [found |-> FALSE, organisation |-> "", lpa |-> ""]

\* d.get(key, default)
DictGet(d, key, default) == IF d.found THEN d[key] ELSE default

\* _load_organisations: the rows with a name and a code, keyed by the
\* stripped, lower-cased name; a later row replaces an earlier one
OrganisationKeys(rows) ==
    {StrLower(StrStrip(rows[i].name)) :
        i \in {j \in 1..Len(rows) : /\ StrStrip(rows[j].name) # ""
                                    /\ StrStrip(rows[j].organisation) # ""}}

LastRowOf(rows, key) ==
    SetMax({i \in 1..Len(rows) : /\ StrLower(StrStrip(rows[i].name)) = key
                                 /\ StrStrip(rows[i].organisation) # ""})

_load_organisations(rows) ==
    [key \in OrganisationKeys(rows) |->
        DictEntry(StrStrip(rows[LastRowOf(rows, key)].organisation),
                  StrStrip(rows[LastRowOf(rows, key)].lpa))]

\* self.organisations after __init__
matcher_organisations == _load_organisations(OrganisationRows)

\* an argument of match: a string or None
StrName(s) == [none |-> FALSE, s |-> s]

NoneName == [none |-> TRUE, s |-> ""]

\* variant: the name is stripped but keeps its letter case
search_name_KeepCase(organisation_name) == StrStrip(organisation_name)

\* search_name = organisation_name.strip().lower()
search_name(organisation_name) == StrLower(StrStrip(organisation_name))

\* the designations appended to a name
Designations ==
    <<" metropolitan borough council", " district council",
      " borough council", " city council", " county council">>

\* f"{name} {designation}" for name and its "and" form, designation by
\* designation
WithDesignations(name, name_and) ==
    [i \in 1..(2 * Len(Designations)) |->
        (IF i % 2 = 1 THEN name ELSE name_and) \o Designations[(i + 1) \div 2]]

\* the list variations of _find_match for a search name and its form with
\* " & " replaced by " and "
Variations(name, name_and) ==
    <<name, name_and, name \o " council", name_and \o " council">>
    \o WithDesignations(name, name_and)
    \o (IF StrIn("council", name)
        THEN <<StrStrip(StrReplace(name, " council", "")),
               StrStrip(StrReplace(name_and, " council", ""))>>
             \o WithDesignations(StrStrip(StrReplace(name, " council", "")),
                                 StrStrip(StrReplace(name_and, " council", "")))
             \o (IF StrIn("borough council", name)
                 THEN <<StrStrip(StrReplace(name, " borough council", ""))
                           \o " council",
                        StrStrip(StrReplace(name_and, " borough council", ""))
                           \o " council",
                        StrStrip(StrReplace(name, " borough council", ""))
                           \o " metropolitan borough council",
                        StrStrip(StrReplace(name_and, " borough council", ""))
                           \o " metropolitan borough council">>
                 ELSE << >>)
             \o (IF StrIn("metropolitan borough council", name)
                 THEN <<StrStrip(StrReplace(name, " metropolitan borough council",
                                            " borough council")),
                        StrStrip(StrReplace(name_and, " metropolitan borough council",
                                            " borough council"))>>
                 ELSE << >>)
        ELSE << >>)

\* for variation in variations: the first one that is a key
FirstKnown(orgs, variations) ==
    IF \E i \in 1..Len(variations) : variations[i] \in DOMAIN orgs
    THEN orgs[variations[SetMin({i \in 1..Len(variations) :
                                    variations[i] \in DOMAIN orgs})]]
    ELSE EmptyDict

\* _find_match once search_name is known
FindBySearchName(orgs, name) ==
    IF name \in DOMAIN orgs THEN orgs[name]
    ELSE FirstKnown(orgs, Variations(name, StrReplace(name, " & ", " and ")))

\* OrganisationMatcher._find_match(organisation_name)
_find_match(orgs, organisation_name) ==
    IF organisation_name.none \/ organisation_name.s = "" \/ DOMAIN orgs = {}
    THEN EmptyDict
    ELSE FindBySearchName(orgs, search_name(organisation_name.s))

\* OrganisationMatcher.match(organisation_name)
match(orgs, organisation_name) ==
    DictGet(_find_match(orgs, organisation_name), "organisation", "")

\* names as callers write them
MatcherBaseNames ==
    {"Bolton Council", "Bolton Metropolitan Borough Council", "Bolton",
     "Bolton Borough Council", "Manchester City Council", "Manchester",
     "Brighton & Hove City Council", "Brighton & Hove", "Brighton and Hove Council",
     "Bassetlaw", "Bassetlaw Council", "Bedford Metropolitan Borough Council",
     "Bedford Council", "Durham", "Durham Council", "City of Durham Parish",
     "City of York Council", "York", "Peak District National Park Authority",
     "Unknown Authority", "Council", "&"}

\* s.upper(), for the letters of LowerCase
CharUpper(c) ==
    LET low == {i \in 1..Len(LowerCase) : SubSeq(LowerCase, i, i) = c}
    IN  IF low = {} THEN c ELSE SubSeq(UpperCase, SetMin(low), SetMin(low))

RECURSIVE StrUpper(_)
StrUpper(s) ==
    IF Len(s) <= 1 THEN CharUpper(s)
    ELSE StrUpper(SubSeq(s, 1, Len(s) \div 2))
         \o StrUpper(SubSeq(s, Len(s) \div 2 + 1, Len(s)))

\* the ways a caller may write a name
Spellings(s) ==
    {s, StrUpper(s), StrLower(s), "  " \o s \o " ", "\t" \o StrUpper(s) \o "\n",
     " " \o s}

MatcherNames ==
    {NoneName, StrName(""), StrName("   ")}
    \cup {StrName(n) : n \in UNION {Spellings(b) : b \in MatcherBaseNames}}

MatcherInit ==
    /\ DownloadInit
    /\ sfx = BlankSfx
    /\ run \in {[op |-> "match", organisation_name |-> n, ret |-> "", done |-> FALSE] :
                   n \in MatcherNames}

\* code = matcher.match(organisation_name)
Match ==
    /\ run.op = "match"
    /\ ~run.done
    /\ run' = [run EXCEPT !.ret = match(matcher_organisations, run.organisation_name),
                          !.done = TRUE]
    /\ UNCHANGED <<shared, proc, sfx>>

MatcherNext == Match

MatcherSpec == MatcherInit /\ [][MatcherNext]_vars

\* the names that count as a confident match of a normalised name: the name
\* itself or its base (the name without " council", " borough council") with
\* one of the designations, "&" written as "and" or not
ConfidentBases(n) ==
    {n}
    \cup (IF StrIn("council", n)
          THEN {StrStrip(StrReplace(n, " council", ""))} ELSE {})

ConfidentNames(n) ==
    LET forms == {n, StrReplace(n, " & ", " and ")}
        bases == UNION {ConfidentBases(f) : f \in forms}
    IN  {b \o x : b \in bases, x \in {""} \cup {Designations[i] : i \in 1..Len(Designations)}}
        \cup {f \o " council" : f \in forms}
        \cup (IF StrIn("borough council", n)
              THEN {StrStrip(StrReplace(f, " borough council", "")) \o x :
                       f \in forms, x \in {" council", " metropolitan borough council"}}
              ELSE {})
        \cup (IF StrIn("metropolitan borough council", n)
              THEN {StrStrip(StrReplace(f, " metropolitan borough council",
                                        " borough council")) : f \in forms}
              ELSE {})

\* the codes of the loaded organisations whose name is a confident match
ConfidentCodes(name) ==
    {matcher_organisations[k].organisation :
        k \in DOMAIN matcher_organisations
              \cap ConfidentNames(StrLower(StrStrip(name)))}

\* C25: match returns the code of an organisation whose name is the given
\* name or one of its fixed variations, and "" when there is none or the
\* name is empty or None; the result is the same for the name in upper
\* case, in lower case and with whitespace around it
C25_ConfidentMatchOnly ==
    (run.op = "match" /\ run.done) =>
       /\ run.organisation_name.none => run.ret = ""
       /\ ~run.organisation_name.none =>
             /\ ConfidentCodes(run.organisation_name.s) = {} => run.ret = ""
             /\ ConfidentCodes(run.organisation_name.s) # {} =>
                   run.ret \in ConfidentCodes(run.organisation_name.s)
             /\ \A s \in Spellings(run.organisation_name.s) :
                   match(matcher_organisations, StrName(s)) = run.ret

\* a name in capitals with whitespace around it is matched through a
\* variation
C25_Witness ==
    /\ run.op = "match"
    /\ run.done
    /\ run.organisation_name = StrName("\tBOLTON COUNCIL\n")
    /\ run.ret = "local-authority:BOL"

\* ------------------------------------------------------------------------
\* Properties of the page fetches of find_local_plan
\* ------------------------------------------------------------------------

\* the page fetches made so far, all URLs together
RECURSIVE TotalFetches(_)
TotalFetches(fetched) ==
    IF DOMAIN fetched = {} THEN 0
    ELSE LET u == CHOOSE v \in DOMAIN fetched : TRUE
         IN  fetched[u] + TotalFetches([v \in DOMAIN fetched \ {u} |-> fetched[v]])

\* the candidates among the first n of the list whose page can be fetched
LiveCandidates(r, n) ==
    {k \in 1..n : UrlString(r.likely_urls[k]) \in LivePages(r.site)}

\* C26: the candidates are fetched in the order of the list, none after the
\* third page was fetched or the list has ended; after them at most 10
\* discovered links are fetched; the run never holds more than 8 pages
C26_PageBudget ==
    (run.op = "find_local_plan" /\ run.pc # "start"
        /\ run.likely_urls # << >>) =>
       \* the first i - 1 candidates have been tried, one after the other
       /\ run.i - 1 <= Len(run.likely_urls)
       /\ \A k \in 1..(run.i - 1) :
             UrlString(run.likely_urls[k]) \in DOMAIN run.fetched
       /\ run.pc = "candidates" =>
             /\ TotalFetches(run.fetched) = run.i - 1
             /\ Len(run.pages_content) < MaxCandidatePages
             /\ Len(run.pages_content) = Cardinality(LiveCandidates(run, run.i - 1))
       \* the candidate loop ended at the third page or at the end of the list
       /\ run.pc # "candidates" =>
             \/ run.i - 1 = Len(run.likely_urls)
                   /\ Cardinality(LiveCandidates(run, run.i - 1)) <= MaxCandidatePages
             \/ /\ Cardinality(LiveCandidates(run, run.i - 1)) = MaxCandidatePages
                /\ run.i - 1 \in LiveCandidates(run, run.i - 1)
       \* the discovered links
       /\ Len(run.links) <= MaxDiscoveredLinks
       /\ TotalFetches(run.fetched) - (run.i - 1) <= MaxDiscoveredLinks
       /\ TotalFetches(run.fetched) - (run.i - 1) <= Len(run.links)
       \* the pages
       /\ Len(run.pages_content) <= MaxPages

\* a run that stopped at 8 pages with discovered links left unfetched
C26_Witness ==
    /\ run.op = "find_local_plan"
    /\ run.pc = "done"
    /\ Len(run.pages_content) = MaxPages
    /\ run.i - 1 < Len(run.likely_urls)
    /\ run.j <= Len(run.links)

\* C27: a run passes no URL to fetch_page_content more than once, whether
\* the URL is repeated in the candidate list or comes back as a discovered
\* link after its fetch failed, and no page is held twice in pages_content
C27_OneFetchPerPage ==
    run.op = "find_local_plan" =>
       /\ \A u \in DOMAIN run.fetched : run.fetched[u] <= 1
       /\ \A m, n \in 1..Len(run.pages_content) :
             run.pages_content[m] = run.pages_content[n] => m = n

\* the URL has the file extension: at its end or in front of a query
HasExtension(url, ext) == StrEndsWith(url, ext) \/ StrIn(ext \o "?", url)

\* the rank of a URL in the claimed ordering: download handlers, .pdf,
\* .doc/.docx, direct-file paths, generic download paths, everything else
RankOfUrl(url) ==
    IF AnyIn(<<"download.cfm?", "download.aspx?", "getfile.aspx?">>, url) THEN 0
    ELSE IF HasExtension(url, ".pdf") THEN 1
    ELSE IF HasExtension(url, ".doc") \/ HasExtension(url, ".docx") THEN 2
    ELSE IF StrIn("/downloads/file/", url) \/ StrIn("/documents/d/", url) THEN 3
    ELSE IF StrIn("/download/", url) \/ StrIn("/downloads/", url) THEN 4
    ELSE 5

RankOf(doc) == RankOfUrl(StrLower(doc.url))

\* the documents of one rank, in the order of docs
OfRank(docs, p) ==
    LET HasRank(doc) == RankOf(doc) = p
    IN  SelectSeq(docs, HasRank)

\* after is before in the claimed order: ranks do not decrease, and the
\* documents of one rank are in the order they had in before
InClaimedOrder(before, after) ==
    /\ Len(after) = Len(before)
    /\ \A m, n \in 1..Len(after) : m < n => RankOf(after[m]) <= RankOf(after[n])
    /\ \A p \in 0..5 : OfRank(after, p) = OfRank(before, p)

\* C28: the documents handed to the extraction service are the first 50 of
\* the discovered documents put in the order of their rank (download
\* handlers, .pdf, .doc/.docx, direct-file paths, generic download paths,
\* everything else), documents of equal rank staying in discovery order
C28_DocumentPriorityOrder ==
    [][(run.op = "find_local_plan" /\ run.pc = "analyse" /\ run'.api_calls = 1) =>
          /\ InClaimedOrder(run.all_pdf_links, run'.all_pdf_links)
          /\ \A k \in 1..Len(run'.prompt_docs) :
                run'.prompt_docs[k] = run'.all_pdf_links[k]
          /\ Len(run'.prompt_docs) =
                (IF Len(run'.all_pdf_links) < MaxPromptDocs
                 THEN Len(run'.all_pdf_links) ELSE MaxPromptDocs)]_vars

\* ------------------------------------------------------------------------
\* LocalPlanHousingExtractor.extract_housing_data (bin/local-plan-extractor.py):
\* the page selection and the calls of the extraction API
\* ------------------------------------------------------------------------

\* self.max_retries
max_retries == 5

\* wait_time = 60 * attempt
BackoffSeconds == 60

\* "prompt is too long" halves the pages only when max_pages > 8
MinPagesToHalve == 8

\* a selection larger than this many bytes is halved before any call
MaxPdfBytes == 10000000

\* --max-pages of the command line: the default 32 and other values
MaxPagesArgs == {6, 16, 32, 48}

\* the sizes of the PDF made of the selected pages, by the number of pages
\* asked for: small files, and a file whose pages weigh 400 kB each
PdfFiles == {"small", "heavy", "no-keywords", "unreadable"}

PdfBytes(file, max_pages) ==
    CASE file = "heavy" -> 400000 * max_pages
      [] file = "small" -> 20000 * max_pages
      [] OTHER -> 0

\* the record extract_housing_data returns
HousingData == [kind |-> "data", error |-> ""]

HousingError(error) == [kind |-> "error", error |-> error]

NoReturn == [kind |-> "none", error |-> ""]

ExtractInit ==
    /\ DownloadInit
    /\ sfx = BlankSfx
    /\ run \in {[op |-> "extract_housing_data", file |-> f, max_pages |-> m,
                 pc |-> "select", attempt |-> 1, calls |-> 0,
                 rate_limited |-> 0, waits |-> << >>, selections |-> 0,
                 ret |-> NoReturn] : f \in PdfFiles, m \in MaxPagesArgs}

\* a call of extract_housing_data with max_pages // 2: a new selection
\* with its own retry loop
Halved(r) ==
    [r EXCEPT !.max_pages = @ \div 2, !.pc = "select", !.attempt = 1,
              !.calls = 0, !.rate_limited = 0, !.waits = << >>]

\* find_relevant_pages, extract_pages_to_pdf and the size test
SelectPages ==
    /\ run.op = "extract_housing_data"
    /\ run.pc = "select"
    /\ run' =
          IF run.file = "no-keywords" \/ run.max_pages = 0
          THEN [run EXCEPT !.pc = "done", !.selections = @ + 1,
                   !.ret = HousingError("No relevant pages found with housing keywords")]
          ELSE IF run.file = "unreadable"
          THEN [run EXCEPT !.pc = "done", !.selections = @ + 1,
                   !.ret = HousingError("Failed to extract relevant pages")]
          ELSE IF PdfBytes(run.file, run.max_pages) > MaxPdfBytes
          THEN [Halved(run) EXCEPT !.selections = @ + 1]
          ELSE [run EXCEPT !.pc = "call", !.selections = @ + 1]
    /\ UNCHANGED <<shared, proc, sfx>>

\* self.client.messages.create answers: the JSON object of the answer is
\* read, the answer has no "{...}", or json.loads raises, which
\* "except Exception" turns into an error record
CallAnswered(answer) ==
    /\ run.op = "extract_housing_data"
    /\ run.pc = "call"
    /\ run' = [run EXCEPT !.calls = @ + 1, !.pc = "done",
                 !.ret = CASE answer = "json" -> HousingData
                           [] answer = "no-json" ->
                                 [kind |-> "data",
                                  error |-> "Could not parse JSON response"]
                           [] OTHER -> HousingError("str(JSONDecodeError)")]
    /\ UNCHANGED <<shared, proc, sfx>>

\* variant: a rate-limit error is always followed by another attempt
CallRateLimited_Unbounded ==
    /\ run.op = "extract_housing_data"
    /\ run.pc = "call"
    /\ run' = [run EXCEPT !.calls = @ + 1, !.rate_limited = @ + 1, !.pc = "sleep"]
    /\ UNCHANGED <<shared, proc, sfx>>

\* messages.create raises anthropic.RateLimitError: wait and try again, or
\* after the last attempt re-raise into "except anthropic.RateLimitError"
CallRateLimited ==
    /\ run.op = "extract_housing_data"
    /\ run.pc = "call"
    /\ run' = IF run.attempt < max_retries
              THEN [run EXCEPT !.calls = @ + 1, !.rate_limited = @ + 1,
                               !.pc = "sleep"]
              ELSE [run EXCEPT !.calls = @ + 1, !.rate_limited = @ + 1,
                       !.pc = "done",
                       !.ret = HousingError("Rate limit exceeded after 5 retries")]
    /\ UNCHANGED <<shared, proc, sfx>>

\* time.sleep(wait_time), then the next attempt of the loop
Backoff ==
    /\ run.op = "extract_housing_data"
    /\ run.pc = "sleep"
    /\ run' = [run EXCEPT !.waits = Append(@, BackoffSeconds * run.attempt),
                          !.attempt = @ + 1, !.pc = "call"]
    /\ UNCHANGED <<shared, proc, sfx>>

\* messages.create raises anthropic.BadRequestError
CallRejected(too_long) ==
    /\ run.op = "extract_housing_data"
    /\ run.pc = "call"
    /\ run' = IF too_long /\ run.max_pages > MinPagesToHalve
              THEN Halved(run)
              ELSE [run EXCEPT !.calls = @ + 1, !.pc = "done",
                               !.ret = HousingError("str(BadRequestError)")]
    /\ UNCHANGED <<shared, proc, sfx>>

\* messages.create raises another exception (connection, server error)
CallFailed ==
    /\ run.op = "extract_housing_data"
    /\ run.pc = "call"
    /\ run' = [run EXCEPT !.calls = @ + 1, !.pc = "done",
                          !.ret = HousingError("str(APIConnectionError)")]
    /\ UNCHANGED <<shared, proc, sfx>>

ExtractNext ==
    \/ SelectPages
    \/ \E answer \in {"json", "no-json", "bad-json"} : CallAnswered(answer)
    \/ CallRateLimited
    \/ Backoff
    \/ \E too_long \in BOOLEAN : CallRejected(too_long)
    \/ CallFailed

ExtractSpec == ExtractInit /\ [][ExtractNext]_vars

\* C29: for one page selection the extraction API is called at most 5
\* times; the k-th rate-limit error with k < 5 is followed by a wait of
\* 60*k seconds before the next call; after five rate-limit errors the
\* run has ended with the error record "Rate limit exceeded"
C29_BoundedRateLimitRetry ==
    run.op = "extract_housing_data" =>
       /\ run.calls <= max_retries
       /\ run.rate_limited <= run.calls
       /\ Len(run.waits) < max_retries
       /\ \A k \in 1..Len(run.waits) : run.waits[k] = 60 * k
       /\ run.pc = "call" => Len(run.waits) = run.calls
       /\ run.pc = "sleep" =>
             run.rate_limited < max_retries /\ Len(run.waits) = run.calls - 1
       /\ run.rate_limited = max_retries =>
             /\ run.pc = "done"
             /\ run.ret = HousingError("Rate limit exceeded after 5 retries")
             /\ run.waits = <<60, 120, 180, 240>>

\* five rate-limit errors in a row, in a selection that was halved before
C29_Witness ==
    /\ run.op = "extract_housing_data"
    /\ run.pc = "done"
    /\ run.selections > 1
    /\ run.rate_limited = max_retries
    /\ run.calls = max_retries
    /\ run.ret.kind = "error"

\* ------------------------------------------------------------------------
\* process_source_files (bin/download-documents.py): the documents of the
\* source files are downloaded under the endpoint the file gives them
\* ------------------------------------------------------------------------

\* doc.get('endpoint') of a document without the field
NoEndpoint == << >>

\* the documents of source/*.json: document-url and endpoint; the endpoint
\* is missing, the hash of the document-url, or the hash the document had
\* before its document-url was edited
SourceDocs ==
    {[url |-> u, endpoint |-> e] :
        u \in GoodUrls \cup BadUrls,
        e \in {NoEndpoint} \cup {calculate_sha256(v) : v \in GoodUrls}}

\* endpoint = doc.get('endpoint'); if not endpoint: calculate_sha256(doc_url)
EndpointOf(doc) ==
    IF doc.endpoint = NoEndpoint THEN calculate_sha256(doc.url) ELSE doc.endpoint

\* one pass of "for doc in documents": documents without a document-url
\* are skipped, the others go to download_document
ProcessDocument(p, doc) ==
    /\ doc.url # << >>
    /\ Call(p, doc.url, EndpointOf(doc), "download")

SourceStep(p) ==
    \/ \E doc \in SourceDocs : ProcessDocument(p, doc)
    \/ Lookup(p)
    \/ \E body \in Bodies, content_type \in ContentTypes :
          FetchOk(p, body, content_type)
    \/ \E code \in HttpErrorCodes : FetchHttpError(p, code)
    \/ FetchTransportError(p)
    \/ OpenResource(p)
    \/ OpenResourceFault(p)
    \/ WriteResource(p)
    \/ WriteResourceFault(p)
    \/ OpenLog(p)
    \/ DumpLog(p)
    \/ UnlinkAlias(p)
    \/ LinkAlias(p)
    \/ LinkAliasFault(p)
    \/ Except(p)
    \/ Return(p)

\* download-documents.py is one process
SourceNext == SourceStep(1)

SourceSpec == Init /\ [][SourceNext]_vars

\* no call of download_document is under way
BetweenCalls == \A p \in Procs : proc[p].pc \in {"idle", "done"}

\* C30: between calls every ledger file is named by the SHA256 of the URL
\* its record holds; a record with a resource names a file in
\* collection/resource whose bytes have that SHA1 and whose length is the
\* record's bytes field; a record of a failure has no resource and bytes 0
C30_LedgerMatchesStore ==
    BetweenCalls =>
       \A e \in Endpoints :
          log[e].state # "absent" =>
             /\ log[e].state = "entry"
             /\ e = calculate_sha256(log[e].url)
             /\ log[e].resource # << >> =>
                   /\ log[e].resource \in ResourceNames
                   /\ resource[log[e].resource].exists
                   /\ calculate_sha1(resource[log[e].resource].data) = log[e].resource
                   /\ Len(resource[log[e].resource].data) = log[e].bytes
             /\ log[e].resource = << >> => log[e].bytes = 0

====
